---- MODULE Spec2Model ----
(***************************************************************************)
(* Model of the audio_recognizer Home Assistant integration.               *)
(*                                                                         *)
(* The package holds two generations of the same pipeline:                 *)
(*   - __init__.py: the entry point.  It registers the recognize_file      *)
(*     service and instantiates ITS OWN TelegramBotManager (with           *)
(*     handle_voice_message), async_transcode_from_* and                   *)
(*     async_process_audio_data; it imports nothing from helpers.py or     *)
(*     telegram.py (line 23 imports the third-party `telegram` package).   *)
(*   - helpers.py / telegram.py / exceptions.py: the refactored pipeline   *)
(*     (handle_audio_message, NoAudioStreamError, duration limit).         *)
(* Both are modelled.  Definitions that model __init__.py's copies of a    *)
(* function carry the prefix init_.                                        *)
(*                                                                         *)
(* Text values are sequences so that split/strip/str() are computed: chat  *)
(* ids and the allow-list are sequences of code points (strip() removes    *)
(* characters from all of Unicode), language tags are sequences of         *)
(* one-character strings.                                                  *)
(***************************************************************************)
EXTENDS Bags, Integers, Sequences, FiniteSets, TLC

VARIABLES
    options,   \* entry.options: function from option key to value (absent keys are absent)
    hass,      \* [language: host default tag, stt: entity id -> supported_languages]
    call,      \* the request: a ServiceCall's data, or a Telegram update
    pc,        \* position of the request's task (its current await)
    loc,       \* the handler's local variables
    obs,       \* what the request did to the outside: processes, backend calls, replies, events
    tc,        \* SpecTranscode: one call of a transcoder function on a finished process
    rs,        \* SpecResolve: one language resolution of async_process_audio_data
    st,        \* SpecStream: one _async_stream_from_bytes generator and what it emitted
    bot,       \* SpecLifecycle: the config entry, its TelegramBotManager and the Applications built
    reqs,      \* SpecConcurrent: the tasks of the requests in flight, by request number
    world      \* SpecConcurrent: what the tasks share: processes, event bus, chats, STT entity

vars == <<options, hass, call, pc, loc, obs, tc, rs, st, bot, reqs, world>>

\* ---------------------------------------------------------------- bounds
MaxPcm == 3        \* stdout lengths go up to wav_header_size + MaxPcm
MaxLen == 5        \* SpecStream: buffer lengths 0..MaxLen
MaxChunk == 3      \* SpecStream: chunk sizes 1..MaxChunk
MaxApps == 2       \* SpecLifecycle: Applications built by start_bot_if_enabled
NumRequests == 2   \* SpecConcurrent: requests in flight at the same time
MaxTasks == 2      \* SpecLifecycle: lifecycle coroutines in flight at the same time

\* ---------------------------------------------------------------- Python values
NoneStr == "<None>"            \* None where a str is expected (atomic strings)
NoneSeq == <<"<None>">>        \* None where a character sequence is expected

TruthyStr(s) == s # NoneStr /\ s # ""
TruthySeq(s) == s # NoneSeq /\ s # <<>>

\* dict.get(key, default)
Get(d, key, default) == IF key \in DOMAIN d THEN d[key] ELSE default

\* A str the code takes apart character by character (the chat-id option, a chat id
\* written with str()) is the sequence of its code points, so that every character
\* of Unicode can occur in it: "7, 5" is <<55, 44, 32, 53>>.
\* The characters str.strip() removes are the 29 characters c with c.isspace():
\* \t \n \x0b \f \r, \x1c-\x1f, space, \x85, \xa0, U+1680, U+2000-U+200A, U+2028,
\* U+2029, U+202F, U+205F, U+3000
Whitespace == (9..13) \cup (28..32) \cup {133, 160, 5760} \cup (8192..8202)
              \cup {8232, 8233, 8239, 8287, 12288}

\* str.strip(): drop leading and trailing whitespace
RECURSIVE LStrip(_)
LStrip(s) == IF s # <<>> /\ Head(s) \in Whitespace THEN LStrip(Tail(s)) ELSE s
RECURSIVE RStrip(_)
RStrip(s) == IF s # <<>> /\ s[Len(s)] \in Whitespace
             THEN RStrip(SubSeq(s, 1, Len(s) - 1)) ELSE s
Strip(s) == RStrip(LStrip(s))

\* str.split(sep) for a one-character sep given by its code point: the pieces
\* between separators; "" splits to [""]
RECURSIVE SplitFrom(_, _, _)
SplitFrom(s, sep, cur) ==
    IF s = <<>> THEN <<cur>>
    ELSE IF Head(s) = sep THEN <<cur>> \o SplitFrom(Tail(s), sep, <<>>)
    ELSE SplitFrom(Tail(s), sep, Append(cur, Head(s)))
Split(s, sep) == SplitFrom(s, sep, <<>>)

\* str(int) for a chat id (group chats have negative ids)
\* (the digits "0".."9" are the code points 48..57, "-" is 45)
RECURSIVE NatToStr(_)
NatToStr(n) == IF n < 10 THEN <<48 + n>>
               ELSE Append(NatToStr(n \div 10), 48 + (n % 10))
IntToStr(n) == IF n < 0 THEN <<45>> \o NatToStr(-n) ELSE NatToStr(n)

InSeq(x, s) == \E i \in 1..Len(s) : s[i] = x

\* ---------------------------------------------------------------- exceptions
\* An exception is its class, its message template and the value formatted into it.
NoExc == [cls |-> "", msg |-> "", detail |-> ""]
Exc(c, m, d) == [cls |-> c, msg |-> m, detail |-> d]
IsExc(e) == e.cls # ""

ServiceValidationError(m, d) == Exc("ServiceValidationError", m, d)
NoAudioStreamError(m) == Exc("NoAudioStreamError", m, "")

\* ---------------------------------------------------------------- const.py
CONF_TELEGRAM_ENABLED == "telegram_enabled"
CONF_TELEGRAM_BOT_TOKEN == "telegram_bot_token"
CONF_TELEGRAM_CHAT_IDS == "telegram_chat_ids"
CONF_TELEGRAM_STT_ENTITY_ID == "telegram_stt_entity_id"
CONF_TELEGRAM_SEND_REPLY == "telegram_send_reply"
CONF_TELEGRAM_MAX_DURATION == "telegram_max_duration"
EVENT_TRANSCRIPTION_RECEIVED == "audio_recognizer_transcription"

\* ---------------------------------------------------------------- language matching
\* homeassistant.util.language, as far as `matches(target, supported)` is used for
\* its truthiness: Dialect.parse splits a tag at "-"/"_" into language and region,
\* Dialect.score is negative exactly when the languages differ, and matches()
\* keeps the supported tags whose score is not negative ("*" keeps them all).
\* (Case folding and the ordering by score are not modelled: the tags used here
\* are in canonical case and the callers only test the list for emptiness.)
MATCH_ALL == <<"*">>
TagSeparators == {"-", "_"}

RECURSIVE TagLanguage(_)
TagLanguage(tag) == IF tag = <<>> \/ Head(tag) \in TagSeparators THEN <<>>
                    ELSE <<Head(tag)>> \o TagLanguage(Tail(tag))

RECURSIVE TagRegion(_)
TagRegion(tag) ==        \* the last part after a separator, NoneSeq when there is none
    IF \A i \in 1..Len(tag) : tag[i] \notin TagSeparators THEN NoneSeq
    ELSE LET rest == SubSeq(tag, Len(TagLanguage(tag)) + 2, Len(tag))
         IN IF \A i \in 1..Len(rest) : rest[i] \notin TagSeparators THEN rest
            ELSE TagRegion(rest)

is_language_match(lang_1, lang_2) ==
    \/ lang_1 = lang_2
    \/ {lang_1, lang_2} = {<<"n", "o">>, <<"n", "b">>}

DialectScore(target, tag) ==
    IF ~is_language_match(TagLanguage(target), TagLanguage(tag)) THEN -1
    ELSE IF TagRegion(target) = NoneSeq /\ TagRegion(tag) = NoneSeq
         THEN (IF TagLanguage(target) = TagLanguage(tag) THEN 2 ELSE 1)
    ELSE IF TagRegion(target) # NoneSeq /\ TagRegion(tag) # NoneSeq
         THEN (IF TagRegion(target) = TagRegion(tag) THEN 100 ELSE 0)
    ELSE 1      \* one side has a region: scored by preferred-region rank, never negative

language_util_matches(target, supported) ==
    IF target = MATCH_ALL THEN supported
    ELSE SelectSeq(supported, LAMBDA tag : DialectScore(target, tag) >= 0)

\* ---------------------------------------------------------------- transcoder
wav_header_size == 44

\* The result of a function: the exception it raised (NoExc when it returned) and its value.
Returned(v) == [exc |-> NoExc, value |-> v]
Raised(e) == [exc |-> e, value |-> <<>>]

\* mutant of async_transcode_from_bytes: the stdout length is tested before the exit code
async_transcode_from_bytes_length_first(returncode, stdout_data, error_msg) ==
    IF Len(stdout_data) <= wav_header_size
    THEN Raised(NoAudioStreamError("The source media does not contain an audio stream."))
    ELSE IF returncode # 0
    THEN Raised(ServiceValidationError("Failed to transcode in-memory audio. Error: {}", error_msg))
    ELSE Returned(SubSeq(stdout_data, wav_header_size + 1, Len(stdout_data)))

\* helpers.py: what async_transcode_from_bytes does once process.communicate() returned
async_transcode_from_bytes(returncode, stdout_data, error_msg) ==
    IF returncode # 0
    THEN Raised(ServiceValidationError("Failed to transcode in-memory audio. Error: {}", error_msg))
    ELSE IF Len(stdout_data) > wav_header_size
    THEN Returned(SubSeq(stdout_data, wav_header_size + 1, Len(stdout_data)))
    ELSE Raised(NoAudioStreamError("The source media does not contain an audio stream."))

\* mutant of async_transcode_from_path: `>=` for `>` in the header test
async_transcode_from_path_ge(returncode, stdout_data, error_msg) ==
    IF returncode # 0
    THEN Raised(ServiceValidationError("Failed to transcode audio file: {}. Error: {}", error_msg))
    ELSE IF Len(stdout_data) >= wav_header_size
    THEN Returned(SubSeq(stdout_data, wav_header_size + 1, Len(stdout_data)))
    ELSE Raised(NoAudioStreamError("The source file does not contain an audio stream."))

\* helpers.py: async_transcode_from_path after process.communicate()
async_transcode_from_path(returncode, stdout_data, error_msg) ==
    IF returncode # 0
    THEN Raised(ServiceValidationError("Failed to transcode audio file: {}. Error: {}", error_msg))
    ELSE IF Len(stdout_data) > wav_header_size
    THEN Returned(SubSeq(stdout_data, wav_header_size + 1, Len(stdout_data)))
    ELSE Raised(NoAudioStreamError("The source file does not contain an audio stream."))

\* __init__.py: its own async_transcode_from_path (used by recognize_file)
init_async_transcode_from_path(returncode, stdout_data, error_msg) ==
    IF returncode # 0
    THEN Raised(ServiceValidationError("Failed to transcode audio file: {}. Error: {}", error_msg))
    ELSE IF Len(stdout_data) > wav_header_size
    THEN Returned(SubSeq(stdout_data, wav_header_size + 1, Len(stdout_data)))
    ELSE Raised(ServiceValidationError("Transcoding resulted in empty audio data.", ""))

\* __init__.py: its own async_transcode_from_bytes (used by handle_voice_message)
init_async_transcode_from_bytes(returncode, stdout_data, error_msg) ==
    IF returncode # 0
    THEN Raised(ServiceValidationError("Failed to transcode in-memory audio. Error: {}", error_msg))
    ELSE IF Len(stdout_data) > wav_header_size
    THEN Returned(SubSeq(stdout_data, wav_header_size + 1, Len(stdout_data)))
    ELSE Raised(ServiceValidationError("Transcoding resulted in empty audio data.", ""))

\* ---------------------------------------------------------------- chunked streamer
default_chunk_size == 4096

Min(a, b) == IF a < b THEN a ELSE b

\* io.BytesIO.read(n) at position pos: the next n bytes, fewer at the end
BytesIO_read(data, pos, n) == SubSeq(data, pos + 1, Min(pos + n, Len(data)))

\* The chunks _async_stream_from_bytes yields to a consumer that iterates to the
\* end (`while chunk := buffer.read(chunk_size): yield chunk`).
RECURSIVE StreamFrom(_, _, _)
StreamFrom(data, pos, chunk_size) ==
    LET chunk == BytesIO_read(data, pos, chunk_size)
    IN IF chunk = <<>> THEN <<>>
       ELSE <<chunk>> \o StreamFrom(data, pos + Len(chunk), chunk_size)
async_stream_from_bytes(data, chunk_size) == StreamFrom(data, 0, chunk_size)

\* ---------------------------------------------------------------- recognition
SUCCESS == "success"        \* stt.SpeechResultState.SUCCESS
ERROR == "error"            \* stt.SpeechResultState.ERROR

\* stt.async_get_speech_to_text_entity(hass, entity_id): the entity, or None
async_get_speech_to_text_entity(h, entity_id) ==
    IF entity_id \in DOMAIN h.stt
    THEN [found |-> TRUE, supported_languages |-> h.stt[entity_id]]
    ELSE [found |-> FALSE, supported_languages |-> <<>>]

\* mutant of target_language: the fallback to the first supported entry also for
\* an explicitly requested language
target_language_symmetric(language, host_language, supported_languages, stt_entity_id) ==
    LET target == IF TruthySeq(language) THEN language ELSE host_language
    IN IF language_util_matches(target, supported_languages) = <<>>
       THEN IF supported_languages # <<>>
            THEN Returned(supported_languages[1])
            ELSE Raised(ServiceValidationError("Language '{}' is not supported by {}.", target))
       ELSE Returned(target)

\* mutant of target_language: a match is replaced by the best matching supported entry
target_language_first_match(language, host_language, supported_languages, stt_entity_id) ==
    LET target == IF TruthySeq(language) THEN language ELSE host_language
        matching == language_util_matches(target, supported_languages)
    IN IF matching = <<>>
       THEN IF language = NoneSeq /\ supported_languages # <<>>
            THEN Returned(supported_languages[1])
            ELSE Raised(ServiceValidationError("Language '{}' is not supported by {}.", target))
       ELSE Returned(matching[1])

\* mutant of target_language: the candidate is used without the test against the
\* supported list
target_language_unchecked(language, host_language, supported_languages, stt_entity_id) ==
    LET target == IF TruthySeq(language) THEN language ELSE host_language
    IN Returned(target)

\* helpers.py 73-79: the language sent to the backend, or the exception raised
target_language(language, host_language, supported_languages, stt_entity_id) ==
    LET target == IF TruthySeq(language) THEN language ELSE host_language
    IN IF language_util_matches(target, supported_languages) = <<>>
       THEN IF language = NoneSeq /\ supported_languages # <<>>
            THEN Returned(supported_languages[1])
            ELSE Raised(ServiceValidationError("Language '{}' is not supported by {}.", target))
       ELSE Returned(target)

SpeechMetadata(language) ==
    [language |-> language, format |-> "wav", codec |-> "pcm", bit_rate |-> 16,
     sample_rate |-> 16000, channel |-> 1]

\* helpers.py 70-90: async_process_audio_data up to its await of the backend:
\* the exception raised before the try block, or the arguments of
\* internal_async_process_audio_stream(metadata, audio_stream)
async_process_audio_data_call(h, stt_entity_id, language, audio_data) ==
    LET stt_provider == async_get_speech_to_text_entity(h, stt_entity_id)
        resolved == target_language(language, h.language,
                                    stt_provider.supported_languages, stt_entity_id)
    IN IF ~stt_provider.found
       THEN Raised(ServiceValidationError("STT provider '{}' not found.", stt_entity_id))
       ELSE IF IsExc(resolved.exc) THEN Raised(resolved.exc)
       ELSE Returned([entity_id |-> stt_entity_id,
                      metadata |-> SpeechMetadata(resolved.value),
                      audio_stream |-> async_stream_from_bytes(audio_data, default_chunk_size)])

\* What the backend call ended with: an exception of its own, or a SpeechResult
BackendRaised(e) == [raised |-> e, result |-> "", text |-> NoneStr]
SpeechResult(state, text) == [raised |-> NoExc, result |-> state, text |-> text]
NoOutcome == [raised |-> NoExc, result |-> "", text |-> NoneStr]

\* helpers.py 88-96: the body of the try block once the backend call ended
async_process_audio_data_try(outcome) ==
    IF IsExc(outcome.raised) THEN Raised(outcome.raised)
    ELSE IF outcome.result = SUCCESS THEN Returned([text |-> outcome.text])
    ELSE Raised(ServiceValidationError("Recognition failed. Result state: {}", outcome.result))

\* helpers.py 87-100: the try block under its `except Exception` clause, which
\* replaces whatever was raised inside the block
async_process_audio_data_finish(outcome) ==
    LET body == async_process_audio_data_try(outcome)
    IN IF IsExc(body.exc)
       THEN Raised(ServiceValidationError("An unexpected error occurred during STT processing.", ""))
       ELSE body

\* __init__.py 228-234: its own copy of the language resolution
init_target_language(language, host_language, supported_languages, stt_entity_id) ==
    LET target == IF TruthySeq(language) THEN language ELSE host_language
    IN IF language_util_matches(target, supported_languages) = <<>>
       THEN IF language = NoneSeq /\ supported_languages # <<>>
            THEN Returned(supported_languages[1])
            ELSE Raised(ServiceValidationError("Language '{}' is not supported by {}.", target))
       ELSE Returned(target)

\* __init__.py 225-245: its own copy of async_process_audio_data, up to the backend await
init_async_process_audio_data_call(h, stt_entity_id, language, audio_data) ==
    LET stt_provider == async_get_speech_to_text_entity(h, stt_entity_id)
        resolved == init_target_language(language, h.language,
                                         stt_provider.supported_languages, stt_entity_id)
    IN IF ~stt_provider.found
       THEN Raised(ServiceValidationError("STT provider '{}' not found.", stt_entity_id))
       ELSE IF IsExc(resolved.exc) THEN Raised(resolved.exc)
       ELSE Returned([entity_id |-> stt_entity_id,
                      metadata |-> SpeechMetadata(resolved.value),
                      audio_stream |-> async_stream_from_bytes(audio_data, default_chunk_size)])

\* __init__.py 242-255: its own copy of the try block and its except clause
init_async_process_audio_data_finish(outcome) ==
    LET body == IF IsExc(outcome.raised) THEN Raised(outcome.raised)
                ELSE IF outcome.result = SUCCESS THEN Returned([text |-> outcome.text])
                ELSE Raised(ServiceValidationError("Recognition failed. Result state: {}",
                                                   outcome.result))
    IN IF IsExc(body.exc)
       THEN Raised(ServiceValidationError("An unexpected error occurred during STT processing.", ""))
       ELSE body

\* ---------------------------------------------------------------- chat handler, before its first await
\* telegram.py 89-90: [s.strip() for s in allowed_ids_str.split(',') if s.strip()]
\* ("," is the code point 44)
RECURSIVE StripAll(_)
StripAll(parts) == IF parts = <<>> THEN <<>>
                   ELSE <<Strip(Head(parts))>> \o StripAll(Tail(parts))
\* mutant of allowed_ids: entries that are empty after strip() are kept
allowed_ids_keep_empty(opts) ==
    LET allowed_ids_str == Get(opts, CONF_TELEGRAM_CHAT_IDS, <<>>)
    IN StripAll(Split(allowed_ids_str, 44))

allowed_ids(opts) ==
    LET allowed_ids_str == Get(opts, CONF_TELEGRAM_CHAT_IDS, <<>>)
    IN StripAll(SelectSeq(Split(allowed_ids_str, 44), LAMBDA p : Strip(p) # <<>>))

\* telegram.py 91: `if allowed_ids and chat_id_str not in allowed_ids`, on the list
\* that line 90 made
unauthorized(opts, chat_id_str) ==
    \E ids \in {allowed_ids(opts)} : ids # <<>> /\ ~InSeq(chat_id_str, ids)

\* telegram.py 107-109: the duration test of handle_audio_message
default_max_duration == 180
media_duration(media) == IF media.has_duration THEN media.duration ELSE 0
\* mutant of too_long: the `max_duration > 0` test is missing
too_long_no_zero_test(opts, media) ==
    LET duration == media_duration(media)
        max_duration == Get(opts, CONF_TELEGRAM_MAX_DURATION, default_max_duration)
    IN duration > 0 /\ duration > max_duration

too_long(opts, media) ==
    LET duration == media_duration(media)
        max_duration == Get(opts, CONF_TELEGRAM_MAX_DURATION, default_max_duration)
    IN max_duration > 0 /\ duration > 0 /\ duration > max_duration

\* ---------------------------------------------------------------- inputs
EN == <<"e", "n">>
DE == <<"d", "e">>
FR == <<"f", "r">>
EN_US == <<"e", "n", "-", "U", "S">>

HostLanguages == {EN, DE}
SupportedChoices == {<<>>, <<EN_US, FR>>, <<EN_US>>, <<DE, EN_US>>}
HassChoices == {[language |-> l, stt |-> [e \in {"stt.a"} |-> sup]] :
                    l \in HostLanguages, sup \in SupportedChoices}

FileCalls == {[kind |-> "recognize_file",
               data |-> [file_path |-> f, entity_id |-> e, language |-> l]] :
                    f \in {NoneStr, "", "/media/a.ogg"},
                    e \in {NoneStr, "", "stt.a", "stt.missing"},
                    l \in {NoneSeq, <<>>, EN, DE}}

NoMedia == [type |-> "none", has_duration |-> FALSE, duration |-> 0]
AudioMedia == {[type |-> "voice", has_duration |-> TRUE, duration |-> d] : d \in {0, 100, 200}}
              \cup {[type |-> "audio", has_duration |-> TRUE, duration |-> 200],
                    [type |-> "document", has_duration |-> FALSE, duration |-> 0],
                    NoMedia}
VoiceMedia == {[type |-> "voice", has_duration |-> TRUE, duration |-> d] : d \in {100, 200}}
ChatIds == {7, -12}

\* Telegram updates: kind "audio" is delivered to telegram.py's handle_audio_message,
\* kind "voice" to __init__.py's handle_voice_message (registered for filters.VOICE)
ChatUpdates == {[kind |-> "audio", chat_id |-> c, username |-> "alice", media |-> m] :
                    c \in ChatIds, m \in AudioMedia}
               \cup {[kind |-> "voice", chat_id |-> c, username |-> "alice", media |-> m] :
                    c \in ChatIds, m \in VoiceMedia}

NoOptions == [k \in {} |-> 0]
Opt(key, values) == {NoOptions} \cup {(key :> v) : v \in values}
\* config_flow.py 72-75: the chat-id option is a free str.  BlankChatIds holds commas
\* and every whitespace character and nothing else; PaddedChatIds is
\* "\u2003" "7" "\xa0\x0b" "," "\x85\u3000\r" "5" "\u2028"
BlankChatIds == <<9, 10, 11, 12, 13, 44, 28, 29, 30, 31, 32, 44, 44, 133, 160, 5760,
                  8192, 8193, 8194, 8195, 8196, 8197, 8198, 8199, 8200, 8201, 8202,
                  44, 8232, 8233, 8239, 8287, 12288>>
PaddedChatIds == <<8195, 55, 160, 11, 44, 133, 12288, 13, 53, 8232>>
ChatIdsStrings == {<<>>, BlankChatIds, <<55>>, PaddedChatIds, <<55, 53>>}
OptionChoices == {a @@ b @@ c @@ d :
                    a \in Opt(CONF_TELEGRAM_CHAT_IDS, ChatIdsStrings),
                    b \in Opt(CONF_TELEGRAM_STT_ENTITY_ID, {"", "stt.a", "stt.missing"}),
                    c \in Opt(CONF_TELEGRAM_SEND_REPLY, {TRUE, FALSE}),
                    d \in Opt(CONF_TELEGRAM_MAX_DURATION, {0, 180})}

\* stdout of the transcoder process: n bytes, byte i being (i * seed) mod 256
StdoutData(n, seed) == [i \in 1..n |-> (i * seed) % 256]
StdoutLengths == {0, wav_header_size - 1, wav_header_size} \cup
                 {wav_header_size + k : k \in 1..MaxPcm}

\* ---------------------------------------------------------------- request state
NoLocals == [should_send_reply |-> FALSE, stt_entity_id |-> NoneStr,
             chat_id_str |-> <<>>, reply_in |-> ""]
NoObs == [transcoder_calls |-> 0, spawned |-> 0, lookups |-> 0, backend_calls |-> <<>>,
          get_files |-> 0, downloads |-> 0, replies |-> <<>>, delivered |-> 0,
          events |-> <<>>, returned |-> <<>>, raised |-> NoExc,
          failure |-> NoExc, transcoded |-> <<>>, outcome |-> NoOutcome,
          authorized |-> FALSE]

TcIdle == [fn |-> "", returncode |-> 0, stdout_data |-> <<>>, error_msg |-> "",
           done |-> FALSE, result |-> Returned(<<>>)]
RsIdle == [fn |-> "", language |-> NoneSeq, host_language |-> <<>>,
           supported_languages |-> <<>>, done |-> FALSE, result |-> Returned(<<>>)]
StIdle == [data |-> <<>>, chunk_size |-> 0, pos |-> 0, chunks |-> <<>>,
           sleeps |-> 0, pc |-> "idle"]

\* What one lifecycle call did: the steps it attempted on the Application, whether
\* it logged an error, the exception it let out, and the Application's state before.
\* bot.last is the record of the call that ended in the step just taken (NoCall if
\* none ended in it).
NoCall == [op |-> "", steps |-> <<>>, logged |-> FALSE, raised |-> NoExc, app |-> 0,
           had_app |-> FALSE, was_running |-> FALSE, was_polling |-> FALSE]
BotIdle == [cls |-> "", entry |-> "not_loaded", has_manager |-> FALSE,
            telegram_app |-> 0, apps |-> <<>>, last |-> NoCall, tasks |-> EmptyBag]

\* What all requests share besides entry.options and hass: the operating system's
\* ffmpeg processes (each with its pid and the media it was started on), the event
\* bus, the messages delivered to the Telegram chats, the calls the STT entity got,
\* the manager's telegram_app (whether it is an Application), and the call of the
\* send_reply service with its position, what it raised and what it logged
NoWorld == [processes |-> {}, bus |-> EmptyBag, sent |-> EmptyBag, stt |-> EmptyBag,
            telegram_app |-> FALSE,
            service |-> [pc |-> "idle", data |-> [chat_id |-> 0, message |-> ""],
                         chat_id |-> <<>>, text |-> "", raised |-> NoExc, logged |-> ""]]

\* ---------------------------------------------------------------- handlers
\* A step of a handler ends at its next await, or at its end.
At(p, l, o) == [pc |-> p, loc |-> l, obs |-> o]
Finished(l, o) == At("done", l, o)

\* `await update.message.reply_text(...)`, called in the try block or in an except clause
reply_text(kind, text, where, l, o) ==
    At("reply", [l EXCEPT !.reply_in = where],
       [o EXCEPT !.replies = Append(@, [kind |-> kind, text |-> text])])

Failed(e, o) == [o EXCEPT !.failure = IF IsExc(@) THEN @ ELSE e]

\* mutant of handle_audio_message_except: the generic error reply is sent whatever
\* the send-reply toggle
handle_audio_message_except_always_reply(e, l, o) ==
    IF e.cls = "NoAudioStreamError"
    THEN IF l.should_send_reply
         THEN reply_text("no_audio_track", "", "except", l, Failed(e, o))
         ELSE Finished(l, Failed(e, o))
    ELSE reply_text("error", e.msg, "except", l, Failed(e, o))

\* telegram.py 139-146: the except clauses of handle_audio_message
handle_audio_message_except(e, l, o) ==
    IF e.cls = "NoAudioStreamError"
    THEN IF l.should_send_reply
         THEN reply_text("no_audio_track", "", "except", l, Failed(e, o))
         ELSE Finished(l, Failed(e, o))
    ELSE IF l.should_send_reply
         THEN reply_text("error", e.msg, "except", l, Failed(e, o))
         ELSE Finished(l, Failed(e, o))

\* __init__.py 216-219: the except clause of handle_voice_message
handle_voice_message_except(e, l, o) ==
    IF l.should_send_reply
    THEN reply_text("error", e.msg, "except", l, Failed(e, o))
    ELSE Finished(l, Failed(e, o))

\* An exception raised in a handler's body: recognize_file lets it out to the
\* service caller, the chat handlers catch it
Propagate(kind, e, l, o) ==
    CASE kind = "recognize_file" -> Finished(l, [Failed(e, o) EXCEPT !.raised = e])
      [] kind = "audio" -> handle_audio_message_except(e, l, o)
      [] kind = "voice" -> handle_voice_message_except(e, l, o)

\* the call of async_transcode_from_*: it awaits create_subprocess_exec first
call_transcoder(l, o) == At("spawn", l, [o EXCEPT !.transcoder_calls = @ + 1])

\* mutant of handle_recognize_file_service_start: the entity_id test is missing
handle_recognize_file_service_start_no_entity_test(data, l, o) ==
    IF ~TruthyStr(data.file_path)
    THEN Propagate("recognize_file", ServiceValidationError("'file_path' is required.", ""), l, o)
    ELSE call_transcoder([l EXCEPT !.stt_entity_id = data.entity_id], o)

\* __init__.py 86-93: handle_recognize_file_service up to its first await
handle_recognize_file_service_start(data, l, o) ==
    IF ~TruthyStr(data.file_path)
    THEN Propagate("recognize_file", ServiceValidationError("'file_path' is required.", ""), l, o)
    ELSE IF ~TruthyStr(data.entity_id)
    THEN Propagate("recognize_file", ServiceValidationError("'entity_id' is required.", ""), l, o)
    ELSE call_transcoder([l EXCEPT !.stt_entity_id = data.entity_id], o)

\* mutant of handle_audio_message_start: the duration test comes before the test of
\* the configured STT entity
handle_audio_message_start_duration_first(opts, update, l, o) ==
    LET chat_id_str == IntToStr(update.chat_id)
        stt_entity_id == Get(opts, CONF_TELEGRAM_STT_ENTITY_ID, NoneStr)
        should_send_reply == Get(opts, CONF_TELEGRAM_SEND_REPLY, TRUE)
        l1 == [l EXCEPT !.chat_id_str = chat_id_str]
        o1 == [o EXCEPT !.authorized = TRUE]
        l2 == [l1 EXCEPT !.stt_entity_id = stt_entity_id,
                         !.should_send_reply = should_send_reply]
    IN IF unauthorized(opts, chat_id_str) THEN Finished(l1, o)
       ELSE IF update.media.type = "none" THEN Finished(l2, o1)
       ELSE IF too_long(opts, update.media)
       THEN IF should_send_reply
            THEN reply_text("too_long", "", "try", l2, o1)
            ELSE Finished(l2, o1)
       ELSE IF ~TruthyStr(stt_entity_id) THEN Finished(l1, o1)
       ELSE At("get_file", l2, [o1 EXCEPT !.get_files = @ + 1])

\* telegram.py 88-121: handle_audio_message up to its first await
handle_audio_message_start(opts, update, l, o) ==
    LET chat_id_str == IntToStr(update.chat_id)
        stt_entity_id == Get(opts, CONF_TELEGRAM_STT_ENTITY_ID, NoneStr)
        should_send_reply == Get(opts, CONF_TELEGRAM_SEND_REPLY, TRUE)
        l1 == [l EXCEPT !.chat_id_str = chat_id_str]
        o1 == [o EXCEPT !.authorized = TRUE]
        l2 == [l1 EXCEPT !.stt_entity_id = stt_entity_id,
                         !.should_send_reply = should_send_reply]
    IN IF unauthorized(opts, chat_id_str) THEN Finished(l1, o)
       ELSE IF ~TruthyStr(stt_entity_id) THEN Finished(l1, o1)
       ELSE IF update.media.type = "none" THEN Finished(l2, o1)
       ELSE IF too_long(opts, update.media)
       THEN IF should_send_reply
            THEN reply_text("too_long", "", "try", l2, o1)
            ELSE Finished(l2, o1)
       ELSE At("get_file", l2, [o1 EXCEPT !.get_files = @ + 1])

\* __init__.py 177-191: handle_voice_message up to its first await
handle_voice_message_start(opts, update, l, o) ==
    LET chat_id_str == IntToStr(update.chat_id)
        stt_entity_id == Get(opts, CONF_TELEGRAM_STT_ENTITY_ID, NoneStr)
        should_send_reply == Get(opts, CONF_TELEGRAM_SEND_REPLY, TRUE)
        l1 == [l EXCEPT !.chat_id_str = chat_id_str]
        o1 == [o EXCEPT !.authorized = TRUE]
        l2 == [l1 EXCEPT !.stt_entity_id = stt_entity_id,
                         !.should_send_reply = should_send_reply]
    IN IF unauthorized(opts, chat_id_str) THEN Finished(l1, o)
       ELSE IF ~TruthyStr(stt_entity_id) THEN Finished(l1, o1)
       ELSE At("get_file", l2, [o1 EXCEPT !.get_files = @ + 1])

\* The transcoder function each handler calls, applied to the finished process
transcode(kind, returncode, stdout_data, error_msg) ==
    CASE kind = "recognize_file" -> init_async_transcode_from_path(returncode, stdout_data, error_msg)
      [] kind = "audio" -> async_transcode_from_bytes(returncode, stdout_data, error_msg)
      [] kind = "voice" -> init_async_transcode_from_bytes(returncode, stdout_data, error_msg)

\* The async_process_audio_data each handler calls, with the language it passes
process_call(c, h, l, audio_data) ==
    CASE c.kind = "recognize_file" ->
            init_async_process_audio_data_call(h, l.stt_entity_id, c.data.language, audio_data)
      [] c.kind = "audio" ->
            async_process_audio_data_call(h, l.stt_entity_id, NoneSeq, audio_data)
      [] c.kind = "voice" ->
            init_async_process_audio_data_call(h, l.stt_entity_id, NoneSeq, audio_data)

process_finish(kind, outcome) ==
    IF kind = "audio" THEN async_process_audio_data_finish(outcome)
    ELSE init_async_process_audio_data_finish(outcome)

\* mutant of after_communicate: a failed transcoding is tried a second time
after_communicate_retry(c, h, returncode, stdout_data, error_msg, l, o) ==
    LET audio == transcode(c.kind, returncode, stdout_data, error_msg)
        o1 == [o EXCEPT !.transcoded = Append(@, audio)]
        o2 == [o1 EXCEPT !.lookups = @ + 1]
        args == process_call(c, h, l, audio.value)
    IN IF IsExc(audio.exc)
       THEN IF o.transcoder_calls < 2 THEN call_transcoder(l, o1)
            ELSE Propagate(c.kind, audio.exc, l, o1)
       ELSE IF IsExc(args.exc) THEN Propagate(c.kind, args.exc, l, o2)
       ELSE At("backend", l, [o2 EXCEPT !.backend_calls = Append(@, args.value)])

\* helpers.py 24-35 then 66-90 (and their __init__.py copies): the transcoder
\* process ended; the payload goes straight into async_process_audio_data
after_communicate(c, h, returncode, stdout_data, error_msg, l, o) ==
    LET audio == transcode(c.kind, returncode, stdout_data, error_msg)
        o1 == [o EXCEPT !.transcoded = Append(@, audio)]
        o2 == [o1 EXCEPT !.lookups = @ + 1]
        args == process_call(c, h, l, audio.value)
    IN IF IsExc(audio.exc) THEN Propagate(c.kind, audio.exc, l, o1)
       ELSE IF IsExc(args.exc) THEN Propagate(c.kind, args.exc, l, o2)
       ELSE At("backend", l, [o2 EXCEPT !.backend_calls = Append(@, args.value)])

\* mutant of dispatch_text: the event is fired under the send-reply toggle
dispatch_text_event_under_toggle(c, text, l, o) ==
    IF TruthyStr(text)
    THEN IF l.should_send_reply
         THEN reply_text("transcript", text, "try", l,
                         [o EXCEPT !.events = Append(@,
                             [event_type |-> EVENT_TRANSCRIPTION_RECEIVED, text |-> text,
                              chat_id |-> l.chat_id_str, username |-> c.username])])
         ELSE Finished(l, o)
    ELSE IF l.should_send_reply THEN reply_text("not_recognized", "", "try", l, o)
         ELSE Finished(l, o)

\* telegram.py 125-137 (__init__.py 200-214): the chat handler with the result
dispatch_text(c, text, l, o) ==
    IF TruthyStr(text)
    THEN LET fired == [o EXCEPT !.events = Append(@,
                          [event_type |-> EVENT_TRANSCRIPTION_RECEIVED, text |-> text,
                           chat_id |-> l.chat_id_str, username |-> c.username])]
         IN IF l.should_send_reply THEN reply_text("transcript", text, "try", l, fired)
            ELSE Finished(l, fired)
    ELSE IF l.should_send_reply THEN reply_text("not_recognized", "", "try", l, o)
         ELSE Finished(l, o)

\* mutant of after_backend: a result that is not a success leaves the task waiting
after_backend_stalls_on_error(c, outcome, l, o) ==
    LET fin == process_finish(c.kind, outcome)
        o1 == [o EXCEPT !.outcome = outcome]
    IN IF ~IsExc(outcome.raised) /\ outcome.result # SUCCESS THEN At("stalled", l, o1)
       ELSE IF IsExc(fin.exc) THEN Propagate(c.kind, fin.exc, l, o1)
       ELSE IF c.kind = "recognize_file"
            THEN Finished(l, [o1 EXCEPT !.returned = <<fin.value>>])
            ELSE dispatch_text(c, fin.value.text, l, o1)

\* the backend call ended: async_process_audio_data classifies, the handler dispatches
after_backend(c, outcome, l, o) ==
    LET fin == process_finish(c.kind, outcome)
        o1 == [o EXCEPT !.outcome = outcome]
    IN IF IsExc(fin.exc) THEN Propagate(c.kind, fin.exc, l, o1)
       ELSE IF c.kind = "recognize_file"
            THEN Finished(l, [o1 EXCEPT !.returned = <<fin.value>>])
            ELSE dispatch_text(c, fin.value.text, l, o1)

\* reply_text raised: in the try block the except clauses take it, in an except
\* clause it leaves the handler
after_reply_raised(c, e, l, o) ==
    IF l.reply_in = "try" THEN Propagate(c.kind, e, l, o)
    ELSE Finished(l, [o EXCEPT !.raised = e])

\* ---------------------------------------------------------------- Spec: one request
Init ==
    /\ hass \in HassChoices
    /\ \/ call \in FileCalls /\ options = NoOptions
       \/ call \in ChatUpdates /\ options \in OptionChoices
    /\ pc = "start"
    /\ loc = NoLocals
    /\ obs = NoObs
    /\ tc = TcIdle
    /\ rs = RsIdle
    /\ st = StIdle
    /\ bot = BotIdle
    /\ reqs = <<>>
    /\ world = NoWorld

Goto(step) ==
    \E s \in {step} :
        /\ pc' = s.pc
        /\ loc' = s.loc
        /\ obs' = s.obs
        /\ UNCHANGED <<options, hass, call, tc, rs, st, bot, reqs, world>>

TelegramError(what) == Exc("TelegramError", what, "")

\* the recognize_file service is called
RecognizeFileCalled ==
    /\ pc = "start" /\ call.kind = "recognize_file"
    /\ Goto(handle_recognize_file_service_start(call.data, loc, obs))

\* telegram.py's handler receives a voice / audio / document message
AudioMessageReceived ==
    /\ pc = "start" /\ call.kind = "audio"
    /\ Goto(handle_audio_message_start(options, call, loc, obs))

\* __init__.py's handler receives a voice message
VoiceMessageReceived ==
    /\ pc = "start" /\ call.kind = "voice"
    /\ Goto(handle_voice_message_start(options, call, loc, obs))

\* `await media.get_file()` returns or raises
GetFileReturns ==
    /\ pc = "get_file"
    /\ \/ Goto(At("download", loc, [obs EXCEPT !.downloads = @ + 1]))
       \/ Goto(Propagate(call.kind, TelegramError("get_file failed"), loc, obs))

\* `await media_file.download_as_bytearray()` returns or raises
DownloadReturns ==
    /\ pc = "download"
    /\ \/ Goto(call_transcoder(loc, obs))
       \/ Goto(Propagate(call.kind, TelegramError("download failed"), loc, obs))

\* `await asyncio.create_subprocess_exec(...)` returns the process, or raises
\* (no ffmpeg executable)
SpawnReturns ==
    /\ pc = "spawn"
    /\ \/ Goto(At("communicate", loc, [obs EXCEPT !.spawned = @ + 1]))
       \/ Goto(Propagate(call.kind, Exc("FileNotFoundError", "No such file or directory: 'ffmpeg'", ""),
                         loc, obs))

\* `await process.communicate()` returns: the process has exited
CommunicateReturns ==
    /\ pc = "communicate"
    /\ \E returncode \in {0, 1}, n \in StdoutLengths :
          Goto(after_communicate(call, hass, returncode, StdoutData(n, 1),
                                 IF returncode = 0 THEN "" ELSE "Invalid data found",
                                 loc, obs))

BackendOutcomes == {SpeechResult(SUCCESS, t) : t \in {"hello", "", NoneStr}}
                   \cup {SpeechResult(ERROR, NoneStr),
                         BackendRaised(Exc("RuntimeError", "backend crashed", ""))}

\* `await stt_provider.internal_async_process_audio_stream(...)` returns or raises
BackendReturns ==
    /\ pc = "backend"
    /\ \E outcome \in BackendOutcomes : Goto(after_backend(call, outcome, loc, obs))

\* `await update.message.reply_text(...)` returns or raises
ReplyReturns ==
    /\ pc = "reply"
    /\ \/ Goto(Finished(loc, [obs EXCEPT !.delivered = @ + 1]))
       \/ Goto(after_reply_raised(call, TelegramError("reply failed"), loc, obs))

Next ==
    \/ RecognizeFileCalled
    \/ AudioMessageReceived
    \/ VoiceMessageReceived
    \/ GetFileReturns
    \/ DownloadReturns
    \/ SpawnReturns
    \/ CommunicateReturns
    \/ BackendReturns
    \/ ReplyReturns

Spec == Init /\ [][Next]_vars

\* Every await of the request comes back: the transcoder process exits, the
\* backend call and the calls of the bot library return or raise
SpecLive == Init /\ [][Next]_vars /\ WF_vars(Next)

\* ---------------------------------------------------------------- SpecTranscode
\* The four transcoder functions on every finished process of the bounded sets.
TranscoderNames == {"helpers.async_transcode_from_bytes", "helpers.async_transcode_from_path",
                    "__init__.async_transcode_from_bytes", "__init__.async_transcode_from_path"}
ReturnCodes == {0, 1, -9}
StdoutSeeds == {1, 37, 255}

NoRequest ==
    /\ hass = [language |-> EN, stt |-> [e \in {"stt.a"} |-> <<EN_US>>]]
    /\ call = [kind |-> "none"]
    /\ pc = "idle"
    /\ loc = NoLocals
    /\ obs = NoObs

RequestIdle ==
    /\ options = NoOptions
    /\ NoRequest

InitTranscode ==
    /\ bot = BotIdle
    /\ reqs = <<>>
    /\ world = NoWorld
    /\ RequestIdle
    /\ rs = RsIdle
    /\ st = StIdle
    /\ \E fn \in TranscoderNames, rc \in ReturnCodes, n \in StdoutLengths, seed \in StdoutSeeds :
          tc = [fn |-> fn, returncode |-> rc, stdout_data |-> StdoutData(n, seed),
                error_msg |-> IF rc = 0 THEN "" ELSE "Invalid data found",
                done |-> FALSE, result |-> Returned(<<>>)]

apply_transcoder(fn, returncode, stdout_data, error_msg) ==
    CASE fn = "helpers.async_transcode_from_bytes" ->
            async_transcode_from_bytes(returncode, stdout_data, error_msg)
      [] fn = "helpers.async_transcode_from_path" ->
            async_transcode_from_path(returncode, stdout_data, error_msg)
      [] fn = "__init__.async_transcode_from_bytes" ->
            init_async_transcode_from_bytes(returncode, stdout_data, error_msg)
      [] fn = "__init__.async_transcode_from_path" ->
            init_async_transcode_from_path(returncode, stdout_data, error_msg)

\* process.communicate() returned and the function classifies the process's end
TranscoderReturns ==
    /\ ~tc.done /\ tc.fn # ""
    /\ tc' = [tc EXCEPT !.done = TRUE,
                        !.result = apply_transcoder(tc.fn, tc.returncode,
                                                    tc.stdout_data, tc.error_msg)]
    /\ UNCHANGED <<options, hass, call, pc, loc, obs, rs, st, bot, reqs, world>>

NextTranscode == TranscoderReturns

SpecTranscode == InitTranscode /\ [][NextTranscode]_vars

\* ---------------------------------------------------------------- SpecStream
\* One _async_stream_from_bytes generator, driven by a consumer (`async for`) and
\* the event loop.
InitStream ==
    /\ RequestIdle
    /\ bot = BotIdle
    /\ reqs = <<>>
    /\ world = NoWorld
    /\ tc = TcIdle
    /\ rs = RsIdle
    /\ \E len \in 0..MaxLen, seed \in {1, 37}, chunk_size \in 1..MaxChunk :
          st = [data |-> StdoutData(len, seed), chunk_size |-> chunk_size, pos |-> 0,
                chunks |-> <<>>, sleeps |-> 0, pc |-> "created"]

\* mutant of stream_read: a final chunk shorter than chunk_size is dropped
stream_read_drop_short(s) ==
    LET chunk == BytesIO_read(s.data, s.pos, s.chunk_size)
    IN IF Len(chunk) < s.chunk_size THEN [s EXCEPT !.pc = "closed"]
       ELSE [s EXCEPT !.pos = @ + Len(chunk), !.chunks = Append(@, chunk), !.pc = "yielded"]

\* helpers.py 40-41: `while chunk := buffer.read(chunk_size): yield chunk`;
\* an empty read ends the generator
stream_read(s) ==
    LET chunk == BytesIO_read(s.data, s.pos, s.chunk_size)
    IN IF chunk = <<>> THEN [s EXCEPT !.pc = "closed"]
       ELSE [s EXCEPT !.pos = @ + Len(chunk), !.chunks = Append(@, chunk), !.pc = "yielded"]

\* the consumer asks for the first chunk: the generator body starts
StreamStart ==
    /\ st.pc = "created"
    /\ st' = stream_read(st)
    /\ UNCHANGED <<options, hass, call, pc, loc, obs, tc, rs, bot, reqs, world>>

\* the consumer asks for the next chunk: the generator resumes after `yield chunk`
\* and gives control to the event loop at `await asyncio.sleep(0)`
StreamResume ==
    /\ st.pc = "yielded"
    /\ st' = [st EXCEPT !.pc = "sleeping", !.sleeps = @ + 1]
    /\ UNCHANGED <<options, hass, call, pc, loc, obs, tc, rs, bot, reqs, world>>

\* the event loop runs the generator again: next turn of the while loop
StreamWake ==
    /\ st.pc = "sleeping"
    /\ st' = stream_read(st)
    /\ UNCHANGED <<options, hass, call, pc, loc, obs, tc, rs, bot, reqs, world>>

NextStream == StreamStart \/ StreamResume \/ StreamWake

\* The consumer iterates to the end and the event loop runs every ready task.
SpecStream == InitStream /\ [][NextStream]_vars /\ WF_vars(NextStream)

\* ---------------------------------------------------------------- SpecResolve
\* The language resolution of async_process_audio_data (both copies) on every
\* (requested, host default, supported) of the bounded sets.
ResolverNames == {"helpers.async_process_audio_data", "__init__.async_process_audio_data"}
RequestedLanguages == {NoneSeq, <<>>, EN, DE, FR, EN_US, MATCH_ALL}
ResolveHostLanguages == {EN, DE, FR}
ResolveSupported == SupportedChoices \cup {<<FR>>, <<EN>>}

InitResolve ==
    /\ RequestIdle
    /\ bot = BotIdle
    /\ reqs = <<>>
    /\ world = NoWorld
    /\ tc = TcIdle
    /\ st = StIdle
    /\ \E fn \in ResolverNames, l \in RequestedLanguages, h \in ResolveHostLanguages,
          sup \in ResolveSupported :
          rs = [fn |-> fn, language |-> l, host_language |-> h,
                supported_languages |-> sup, done |-> FALSE, result |-> Returned(<<>>)]

apply_resolver(fn, language, host_language, supported_languages) ==
    IF fn = "helpers.async_process_audio_data"
    THEN target_language(language, host_language, supported_languages, "stt.a")
    ELSE init_target_language(language, host_language, supported_languages, "stt.a")

\* async_process_audio_data runs lines 73-79 on the provider's supported_languages
LanguageResolved ==
    /\ ~rs.done /\ rs.fn # ""
    /\ rs' = [rs EXCEPT !.done = TRUE,
                        !.result = apply_resolver(rs.fn, rs.language, rs.host_language,
                                                  rs.supported_languages)]
    /\ UNCHANGED <<options, hass, call, pc, loc, obs, tc, st, bot, reqs, world>>

NextResolve == LanguageResolved

SpecResolve == InitResolve /\ [][NextResolve]_vars

\* ---------------------------------------------------------------- SpecLifecycle
\* The bot's lifecycle: async_setup_entry / async_unload_entry of __init__.py, the
\* options flow, and the methods start_bot_if_enabled / stop_bot of the
\* TelegramBotManager classes (telegram.py 33-73 and __init__.py 139-162 are the
\* same code but for the handler they register).  The methods are coroutines: each
\* is a task of bot.tasks that runs from one await to the next, and other tasks
\* run while it is suspended.  An awaited call of the bot library has its effect
\* when it returns, or raises without effect.  self.telegram_app is read again by
\* every statement that names it.
NewApp(handler) == [handler |-> handler, initialized |-> FALSE, running |-> FALSE,
                    updater_running |-> FALSE, shut_down |-> FALSE]

\* the handler each class registers with add_handler
message_handler(cls) == IF cls = "telegram" THEN "handle_audio_message"
                        ELSE "handle_voice_message"

\* `not self.entry.options.get(CONF_TELEGRAM_ENABLED)` is false
bot_enabled(opts) == CONF_TELEGRAM_ENABLED \in DOMAIN opts /\ opts[CONF_TELEGRAM_ENABLED]

\* `self.telegram_app.<attr>` when self.telegram_app is None
AttributeError(attr) == Exc("AttributeError", "'NoneType' object has no attribute '{}'", attr)

\* A coroutine of the manager that was called and has not run yet: via is the
\* caller (async_setup_entry, async_unload_entry, or a direct call)
Coroutine(op, via) == [op |-> op, via |-> via, pc |-> "call", target |-> 0,
                       rec |-> [NoCall EXCEPT !.op = op]]

\* Coroutine t ends with the record rec (returning, or raising rec.raised) and its
\* caller goes on: async_setup_entry returns True or fails with the exception
\* (__init__.py 117-120), async_unload_entry returns True (__init__.py 126-127)
returns(b, t, rec) ==
    LET b1 == [b EXCEPT !.tasks = @ (-) SetToBag({t}), !.last = rec]
    IN CASE t.via = "setup" ->
               [b1 EXCEPT !.entry = IF IsExc(rec.raised) THEN "setup_error" ELSE "loaded"]
         [] t.via = "unload" -> [b1 EXCEPT !.entry = "not_loaded"]
         [] OTHER -> b1

\* Coroutine t suspends at the await of step p on Application a
awaits(b, t, rec, p, a) ==
    LET suspended == [t EXCEPT !.pc = p, !.target = a,
                               !.rec = [rec EXCEPT !.steps = Append(@, p), !.app = a]]
    IN [b EXCEPT !.last = NoCall,
                 !.tasks = (@ (-) SetToBag({t})) (+) SetToBag({suspended})]

\* start_bot_if_enabled up to `await self.hass.async_add_executor_job(build_app)`
start_bot_if_enabled_call(opts, b, t) ==
    LET token == Get(opts, CONF_TELEGRAM_BOT_TOKEN, NoneStr)
        rec == [t.rec EXCEPT !.had_app = (b.telegram_app # 0)]
    IN IF ~bot_enabled(opts) THEN returns(b, t, rec)
       ELSE IF ~TruthyStr(token) THEN returns(b, t, [rec EXCEPT !.logged = TRUE])
       ELSE awaits(b, t, rec, "build", 0)

\* start_bot_if_enabled resumed after the await of step t.pc, which returned (ok)
\* or raised, up to its next await or its end
start_bot_if_enabled_resume(b, t, ok) ==
    LET n == Len(b.apps) + 1
        built == [b EXCEPT !.apps = Append(@, NewApp(message_handler(b.cls))),
                           !.telegram_app = n]
        initialized == [b EXCEPT !.apps[t.target].initialized = TRUE]
        started == [b EXCEPT !.apps[t.target].running = TRUE]
        polling == [b EXCEPT !.apps[t.target].updater_running = TRUE]
    IN IF ~ok THEN returns(b, t, [t.rec EXCEPT !.raised = TelegramError(t.pc)])
       ELSE CASE t.pc = "build" -> awaits(built, t, t.rec, "initialize", n)
              [] t.pc = "initialize" ->
                    IF b.telegram_app = 0
                    THEN returns(initialized, t, [t.rec EXCEPT !.raised = AttributeError("start")])
                    ELSE awaits(initialized, t, t.rec, "start", b.telegram_app)
              [] t.pc = "start" ->
                    IF b.telegram_app = 0
                    THEN returns(started, t, [t.rec EXCEPT !.raised = AttributeError("updater")])
                    ELSE awaits(started, t, t.rec, "start_polling", b.telegram_app)
              [] t.pc = "start_polling" -> returns(polling, t, t.rec)

\* stop_bot: `except Exception` logs, `finally` drops the reference
stop_bot_except(b, t, rec) ==
    returns([b EXCEPT !.telegram_app = 0], t, [rec EXCEPT !.logged = TRUE])

\* stop_bot inside its try block, from the statement of the given stage (1: the
\* updater test, 2: the running test, 3: shutdown) to the next await; on a
\* telegram_app that is None by now the attribute access raises inside the try
stop_bot_try(b, t, rec, stage) ==
    LET a == b.telegram_app
    IN IF a = 0 THEN stop_bot_except(b, t, rec)
       ELSE IF stage <= 1 /\ b.apps[a].updater_running THEN awaits(b, t, rec, "updater.stop", a)
       ELSE IF stage <= 2 /\ b.apps[a].running THEN awaits(b, t, rec, "stop", a)
       ELSE awaits(b, t, rec, "shutdown", a)

\* stop_bot up to its first await
stop_bot_call(b, t) ==
    LET a == b.telegram_app
    IN IF a = 0 THEN returns(b, t, t.rec)
       ELSE stop_bot_try(b, t, [t.rec EXCEPT !.had_app = TRUE,
                                              !.was_running = b.apps[a].running,
                                              !.was_polling = b.apps[a].updater_running], 1)

\* stop_bot resumed after the await of step t.pc
stop_bot_resume(b, t, ok) ==
    LET updater_stopped == [b EXCEPT !.apps[t.target].updater_running = FALSE]
        stopped == [b EXCEPT !.apps[t.target].running = FALSE]
        shut_down == [b EXCEPT !.apps[t.target].initialized = FALSE,
                               !.apps[t.target].shut_down = TRUE,
                               !.telegram_app = 0]
    IN IF ~ok THEN stop_bot_except(b, t, t.rec)
       ELSE CASE t.pc = "updater.stop" -> stop_bot_try(updater_stopped, t, t.rec, 2)
              [] t.pc = "stop" -> stop_bot_try(stopped, t, t.rec, 3)
              [] t.pc = "shutdown" -> returns(shut_down, t, t.rec)

LifecycleOptions == {NoOptions,
                     (CONF_TELEGRAM_ENABLED :> FALSE) @@ (CONF_TELEGRAM_BOT_TOKEN :> "123:abc"),
                     (CONF_TELEGRAM_ENABLED :> TRUE) @@ (CONF_TELEGRAM_BOT_TOKEN :> ""),
                     (CONF_TELEGRAM_ENABLED :> TRUE) @@ (CONF_TELEGRAM_BOT_TOKEN :> "123:abc")}

\* __init__.py's manager is made by async_setup_entry; telegram.py's manager is
\* constructed by its user (telegram_app is None after __init__)
InitLifecycle ==
    /\ options \in LifecycleOptions
    /\ NoRequest
    /\ tc = TcIdle
    /\ rs = RsIdle
    /\ st = StIdle
    /\ reqs = <<>>
    /\ world = NoWorld
    /\ \E cls \in {"__init__", "telegram"} :
          bot = [BotIdle EXCEPT !.cls = cls, !.has_manager = (cls = "telegram")]

\* Applications built so far or about to be built
AppsOwed(b) ==
    Len(b.apps) + BagCardinality([t \in {u \in BagToSet(b.tasks) : u.pc = "build"} |-> b.tasks[t]])
HookRunning(b) == \E t \in BagToSet(b.tasks) : t.via # "direct"

\* the manager's coroutine is called: it runs up to its first await
call_coroutine(opts, b, t) ==
    LET called == [b EXCEPT !.tasks = @ (+) SetToBag({t})]
    IN IF t.op = "stop_bot" THEN stop_bot_call(called, t)
       ELSE start_bot_if_enabled_call(opts, called, t)

\* __init__.py 115-118: a new manager is put into hass.data and its
\* start_bot_if_enabled is awaited.  Home Assistant sets an entry up when it is not
\* loaded and no other hook of the entry is running; the new manager replaces the
\* one the tasks work on, so the calls on the previous one have ended.
SetupEntry ==
    /\ bot.cls = "__init__" /\ bot.entry # "loaded" /\ bot.tasks = EmptyBag
    /\ AppsOwed(bot) < MaxApps
    /\ bot' = call_coroutine(options, [bot EXCEPT !.has_manager = TRUE, !.telegram_app = 0],
                    Coroutine("start_bot_if_enabled", "setup"))
    /\ UNCHANGED <<options, hass, call, pc, loc, obs, tc, rs, st, reqs, world>>

\* __init__.py 122-126: the services are removed, the manager is popped from
\* hass.data and its stop_bot is awaited
async_unload_entry(opts, b) ==
    call_coroutine(opts, [b EXCEPT !.has_manager = FALSE], Coroutine("stop_bot", "unload"))

UnloadEntry ==
    /\ bot.cls = "__init__" /\ bot.entry = "loaded" /\ ~HookRunning(bot)
    /\ BagCardinality(bot.tasks) < MaxTasks
    /\ bot' = async_unload_entry(options, bot)
    /\ UNCHANGED <<options, hass, call, pc, loc, obs, tc, rs, st, reqs, world>>

\* config_flow.py 55-59 and __init__.py 129-130: the options flow stores the new
\* options; on a loaded entry the update listener then reloads it: the entry is
\* unloaded here and set up again by SetupEntry once the unload has ended
OptionsFlow ==
    /\ \E user_input \in LifecycleOptions :
          /\ user_input # options
          /\ options' = user_input
    /\ IF bot.cls = "__init__" /\ bot.entry = "loaded" /\ ~HookRunning(bot)
       THEN BagCardinality(bot.tasks) < MaxTasks /\ bot' = async_unload_entry(options', bot)
       ELSE bot' = [bot EXCEPT !.last = NoCall]
    /\ UNCHANGED <<hass, call, pc, loc, obs, tc, rs, st, reqs, world>>

\* start_bot_if_enabled is called on the manager
StartBotCalled ==
    /\ bot.has_manager /\ BagCardinality(bot.tasks) < MaxTasks /\ AppsOwed(bot) < MaxApps
    /\ bot' = call_coroutine(options, bot, Coroutine("start_bot_if_enabled", "direct"))
    /\ UNCHANGED <<options, hass, call, pc, loc, obs, tc, rs, st, reqs, world>>

\* stop_bot is called on the manager
StopBotCalled ==
    /\ bot.has_manager /\ BagCardinality(bot.tasks) < MaxTasks
    /\ bot' = call_coroutine(options, bot, Coroutine("stop_bot", "direct"))
    /\ UNCHANGED <<options, hass, call, pc, loc, obs, tc, rs, st, reqs, world>>

\* the event loop resumes a suspended coroutine: the call it awaited returned or raised
LifecycleResumes ==
    /\ \E t \in BagToSet(bot.tasks), ok \in BOOLEAN :
          bot' = IF t.op = "stop_bot" THEN stop_bot_resume(bot, t, ok)
                 ELSE start_bot_if_enabled_resume(bot, t, ok)
    /\ UNCHANGED <<options, hass, call, pc, loc, obs, tc, rs, st, reqs, world>>

NextLifecycle ==
    \/ SetupEntry
    \/ UnloadEntry
    \/ OptionsFlow
    \/ StartBotCalled
    \/ StopBotCalled
    \/ LifecycleResumes

SpecLifecycle == InitLifecycle /\ [][NextLifecycle]_vars

\* ---------------------------------------------------------------- SpecConcurrent
\* Several requests in flight in the one event loop.  Each request is a task of
\* its own: its call, the handler's position and local variables, what it did, and
\* the answers its awaits got so far.  The tasks share entry.options and hass,
\* which no handler writes, and the world outside: the operating system that runs
\* the ffmpeg processes, the event bus, Telegram and the STT entity.  A task runs
\* from one await to the next without interruption; the event loop picks which
\* suspended task goes on.

\* What an await came back with: it returned (ok) or raised; the transcoder
\* process's exit code and stdout length; the backend's outcome
Answer(ok, returncode, n, outcome) ==
    [ok |-> ok, returncode |-> returncode, n |-> n, outcome |-> outcome]

\* One task from its current await (or from its start) to its next await, given
\* what the await came back with: the handlers' code between two suspension points
resume(opts, h, c, seed, s, a) ==
    CASE s.pc = "start" ->
            (CASE c.kind = "recognize_file" ->
                    handle_recognize_file_service_start(c.data, s.loc, s.obs)
               [] c.kind = "audio" -> handle_audio_message_start(opts, c, s.loc, s.obs)
               [] c.kind = "voice" -> handle_voice_message_start(opts, c, s.loc, s.obs))
      [] s.pc = "get_file" ->
            IF a.ok THEN At("download", s.loc, [s.obs EXCEPT !.downloads = @ + 1])
            ELSE Propagate(c.kind, TelegramError("get_file failed"), s.loc, s.obs)
      [] s.pc = "download" ->
            IF a.ok THEN call_transcoder(s.loc, s.obs)
            ELSE Propagate(c.kind, TelegramError("download failed"), s.loc, s.obs)
      [] s.pc = "spawn" ->
            IF a.ok THEN At("communicate", s.loc, [s.obs EXCEPT !.spawned = @ + 1])
            ELSE Propagate(c.kind,
                           Exc("FileNotFoundError", "No such file or directory: 'ffmpeg'", ""),
                           s.loc, s.obs)
      [] s.pc = "communicate" ->
            after_communicate(c, h, a.returncode, StdoutData(a.n, seed),
                              IF a.returncode = 0 THEN "" ELSE "Invalid data found",
                              s.loc, s.obs)
      [] s.pc = "backend" -> after_backend(c, a.outcome, s.loc, s.obs)
      [] s.pc = "reply" ->
            IF a.ok THEN Finished(s.loc, [s.obs EXCEPT !.delivered = @ + 1])
            ELSE after_reply_raised(c, TelegramError("reply failed"), s.loc, s.obs)

\* The answers an await can get
Answers(p) ==
    CASE p = "communicate" ->
            {Answer(TRUE, 0, n, NoOutcome) : n \in {wav_header_size, wav_header_size + MaxPcm}}
            \cup {Answer(TRUE, 1, 0, NoOutcome)}
      [] p = "backend" ->
            {Answer(TRUE, 0, 0, o) :
                 o \in {SpeechResult(SUCCESS, "hello"), SpeechResult(ERROR, NoneStr)}}
      [] p \in {"start", "get_file"} -> {Answer(TRUE, 0, 0, NoOutcome)}
      [] OTHER -> {Answer(ok, 0, 0, NoOutcome) : ok \in BOOLEAN}

ConcurrentCalls ==
    <<[kind |-> "recognize_file",
       data |-> [file_path |-> "/media/a.ogg", entity_id |-> "stt.a", language |-> NoneSeq]],
      [kind |-> "audio", chat_id |-> 7, username |-> "alice",
       media |-> [type |-> "audio", has_duration |-> TRUE, duration |-> 100]],
      [kind |-> "voice", chat_id |-> -12, username |-> "bob",
       media |-> [type |-> "voice", has_duration |-> TRUE, duration |-> 100]]>>

ConcurrentOptions == {(CONF_TELEGRAM_STT_ENTITY_ID :> "stt.a")}

\* The task of request i before its first step.  seed stands for the request's
\* media, what is in the file at file_path or the content of the i-th chat message
\* (the seed of the bytes ffmpeg makes of it).  `process` is the local variable
\* of the transcoder function (helpers.py 21, 48): the pid of the process the task
\* started, 0 outside the transcoder
NewTask(c, i) == [call |-> c, seed |-> IF c.kind = "recognize_file" THEN 255 ELSE 36 * i - 35,
                  st |-> At("start", NoLocals, NoObs), process |-> 0, answers |-> <<>>]

InitConcurrent ==
    /\ options \in ConcurrentOptions
    /\ NoRequest
    /\ tc = TcIdle
    /\ rs = RsIdle
    /\ st = StIdle
    /\ bot = BotIdle
    /\ \E calls \in [1..NumRequests -> DOMAIN ConcurrentCalls] :
          \* the requests are numbered in the order of ConcurrentCalls: any task may
          \* run first, so that the other numberings add no behaviour
          /\ \A i \in 1..(NumRequests - 1) : calls[i] <= calls[i + 1]
          /\ reqs = [i \in 1..NumRequests |-> NewTask(ConcurrentCalls[calls[i]], i)]
          \* chat messages come from a running Application; the file service is
          \* there with and without one
          /\ \E telegram_app \in BOOLEAN :
                /\ (\E i \in 1..NumRequests : ConcurrentCalls[calls[i]].kind # "recognize_file")
                      => telegram_app
                /\ world = [NoWorld EXCEPT !.telegram_app = telegram_app]

\* the items a step appended to a list, without their order
RECURSIVE NewItems(_, _)
NewItems(before, after) ==
    IF Len(after) <= Len(before) THEN EmptyBag
    ELSE SetToBag({after[Len(after)]}) (+) NewItems(before, SubSeq(after, 1, Len(after) - 1))

\* asyncio.create_subprocess_exec: the operating system starts a process under
\* the lowest free pid
free_pid(w) == CHOOSE n \in 1..(Cardinality(w.processes) + 1) :
                   /\ \A p \in w.processes : p.pid # n
                   /\ \A m \in 1..(n - 1) : \E p \in w.processes : p.pid = m

\* What a step of task i does to the world: a process started on the task's media
\* or its own process reaped, an event fired on the bus, a reply delivered to the
\* chat of the task's message, a call received by the STT entity
world_after(w, i, task, next, a) ==
    LET started == task.st.pc = "spawn" /\ next.pc = "communicate"
        reaped == task.st.pc = "communicate"
        delivered == next.obs.delivered > task.st.obs.delivered
        reply == task.st.obs.replies[Len(task.st.obs.replies)]
    IN [processes |-> IF started
                      THEN w.processes \cup {[pid |-> free_pid(w), source |-> task.seed]}
                      ELSE IF reaped THEN {p \in w.processes : p.pid # task.process}
                      ELSE w.processes,
        bus |-> w.bus (+) NewItems(task.st.obs.events, next.obs.events),
        sent |-> IF delivered
                 THEN w.sent (+) SetToBag({[message |-> i, chat_id |-> task.call.chat_id,
                                            kind |-> reply.kind, text |-> reply.text]})
                 ELSE w.sent,
        stt |-> w.stt (+) NewItems(task.st.obs.backend_calls, next.obs.backend_calls),
        telegram_app |-> w.telegram_app,
        service |-> w.service]

\* mutant of resume_task: the process is not kept in a local variable of the task;
\* communicate() is called on the process that was started last
resume_task_latest_process(opts, h, tasks, w, i, a) ==
    LET task == tasks[i]
        latest == CHOOSE p \in w.processes : \A q \in w.processes : q.pid <= p.pid
        source == IF task.st.pc = "communicate" THEN latest.source ELSE task.seed
        next == resume(opts, h, task.call, source, task.st, a)
        process == IF task.st.pc = "spawn" /\ next.pc = "communicate" THEN free_pid(w)
                   ELSE IF task.st.pc = "communicate" THEN 0 ELSE task.process
    IN [tasks |-> [tasks EXCEPT ![i] =
                     [task EXCEPT !.st = next, !.process = process, !.answers = Append(@, a)]],
        world |-> world_after(w, i, task, next, a)]

\* The event loop resumes task i with what its await came back with; the other
\* tasks stay suspended where they are.  process.communicate() gives the output
\* of the process the task holds in its local variable `process`
resume_task(opts, h, tasks, w, i, a) ==
    LET task == tasks[i]
        own == CHOOSE p \in w.processes : p.pid = task.process
        source == IF task.st.pc = "communicate" THEN own.source ELSE task.seed
        next == resume(opts, h, task.call, source, task.st, a)
        process == IF task.st.pc = "spawn" /\ next.pc = "communicate" THEN free_pid(w)
                   ELSE IF task.st.pc = "communicate" THEN 0 ELSE task.process
    IN [tasks |-> [tasks EXCEPT ![i] =
                     [task EXCEPT !.st = next, !.process = process, !.answers = Append(@, a)]],
        world |-> world_after(w, i, task, next, a)]

\* the event loop runs a task from its start or from its await to the next await
TaskResumes ==
    /\ \E i \in DOMAIN reqs :
          /\ reqs[i].st.pc # "done"
          /\ \E a \in Answers(reqs[i].st.pc) :
                LET after == resume_task(options, hass, reqs, world, i, a)
                IN reqs' = after.tasks /\ world' = after.world
    /\ UNCHANGED <<options, hass, call, pc, loc, obs, tc, rs, st, bot>>

\* __init__.py 164-172 (telegram.py 75-83): async_send_message up to its await of
\* bot.send_message
async_send_message(s, telegram_app, chat_id, text) ==
    IF ~telegram_app
    THEN [s EXCEPT !.pc = "done", !.logged = "Telegram bot is not available to send a message."]
    ELSE [s EXCEPT !.pc = "send_message", !.chat_id = chat_id, !.text = text]

\* __init__.py 103-109: handle_send_reply_service up to its await.  A chat_id or
\* message that is missing, 0 or "" fails the `not` test
handle_send_reply_service(s, telegram_app, data) ==
    IF data.chat_id = 0
    THEN [s EXCEPT !.pc = "done", !.raised = ServiceValidationError("'chat_id' is required.", "")]
    ELSE IF data.message = ""
    THEN [s EXCEPT !.pc = "done", !.raised = ServiceValidationError("'message' is required.", "")]
    ELSE async_send_message([s EXCEPT !.data = data], telegram_app,
                            IntToStr(data.chat_id), data.message)

\* the send_reply service is called, at any moment
SendReplyCalled ==
    /\ world.service.pc = "idle"
    /\ \E data \in {[chat_id |-> 7, message |-> "hi"], [chat_id |-> 0, message |-> "hi"],
                     [chat_id |-> 7, message |-> ""]} :
          world' = [world EXCEPT !.service =
                        handle_send_reply_service(@, world.telegram_app, data)]
    /\ UNCHANGED <<options, hass, call, pc, loc, obs, tc, rs, st, bot, reqs>>

\* bot.send_message returned, the message is in the chat; or it raised, and
\* async_send_message logs the exception (__init__.py 171-172)
SendMessageReturns ==
    /\ world.service.pc = "send_message"
    /\ \E ok \in BOOLEAN :
          world' = IF ok
                   THEN [world EXCEPT
                            !.service.pc = "done",
                            !.sent = @ (+) SetToBag({[message |-> 0,
                                                      chat_id |-> world.service.data.chat_id,
                                                      kind |-> "message",
                                                      text |-> world.service.text]})]
                   ELSE [world EXCEPT
                            !.service.pc = "done",
                            !.service.logged = "Failed to send Telegram message to chat_id {}: {}"]
    /\ UNCHANGED <<options, hass, call, pc, loc, obs, tc, rs, st, bot, reqs>>

NextConcurrent ==
    \/ TaskResumes
    \/ SendReplyCalled
    \/ SendMessageReturns

SpecConcurrent == InitConcurrent /\ [][NextConcurrent]_vars

\* ================================================================ claims
\* The failure kinds of the specification, read off an exception of the code.
Kind(e) ==
    CASE e.cls = "" -> "none"
      [] e.cls = "NoAudioStreamError" -> "NoAudioStream"
      [] e.cls = "ServiceValidationError" ->
            (CASE e.msg \in {"'file_path' is required.", "'entity_id' is required."}
                        -> "MissingArgument"
               [] e.msg \in {"Failed to transcode in-memory audio. Error: {}",
                             "Failed to transcode audio file: {}. Error: {}"}
                        -> "TranscodeFailed"
               [] e.msg = "Transcoding resulted in empty audio data." -> "NoAudioStream"
               [] e.msg = "STT provider '{}' not found." -> "EntityNotFound"
               [] e.msg = "Language '{}' is not supported by {}." -> "UnsupportedLanguage"
               [] e.msg = "Recognition failed. Result state: {}" -> "RecognitionFailed"
               [] e.msg = "An unexpected error occurred during STT processing."
                        -> "InternalError"
               [] OTHER -> "other")
      [] OTHER -> "raw"

IsChat == call.kind \in {"audio", "voice"}
RequestEntity == IF call.kind = "recognize_file" THEN call.data.entity_id
                 ELSE Get(options, CONF_TELEGRAM_STT_ENTITY_ID, NoneStr)
RequestLanguage == IF call.kind = "recognize_file" THEN call.data.language ELSE NoneSeq
EntityUnknown == TruthyStr(RequestEntity) /\ RequestEntity \notin DOMAIN hass.stt

\* The primary language of the tags of the bounded sets, written out.
PrimaryOf(tag) ==
    CASE tag = EN -> "en" [] tag = EN_US -> "en" [] tag = FR -> "fr" [] tag = DE -> "de"
      [] OTHER -> "?"
SomeSamePrimary(cand, sup) ==
    \E i \in 1..Len(sup) : PrimaryOf(sup[i]) # "?" /\ PrimaryOf(sup[i]) = PrimaryOf(cand)

\* C1 (as stated): a request whose entity id is not in the STT lookup fails with
\* EntityNotFound and the transcoder is never invoked for it.
C1_Original ==
    EntityUnknown =>
        /\ obs.transcoder_calls = 0
        /\ obs.spawned = 0
        /\ (obs.lookups > 0 => Kind(obs.failure) = "EntityNotFound")

\* What the code does for a request whose entity id is not in the STT lookup: the
\* backend is never called; the lookup comes after transcoding, so when it fails with
\* EntityNotFound the transcoder process has already run once and succeeded, and a
\* request whose transcoding failed never reaches the lookup.
C1_LookupAfterTranscoding ==
    EntityUnknown =>
        /\ obs.backend_calls = <<>>
        /\ obs.lookups <= 1
        /\ obs.lookups = 1 =>
              /\ obs.transcoder_calls = 1 /\ obs.spawned = 1
              /\ Len(obs.transcoded) = 1 /\ ~IsExc(obs.transcoded[1].exc)
              /\ Kind(obs.failure) = "EntityNotFound"
              /\ obs.failure.detail = RequestEntity
              /\ (call.kind = "recognize_file" => obs.raised = obs.failure)
        /\ Kind(obs.failure) = "EntityNotFound" => obs.lookups = 1
        /\ (Len(obs.transcoded) = 1 /\ IsExc(obs.transcoded[1].exc)) => obs.lookups = 0

C1_TranscodedThenNotFound ==
    /\ EntityUnknown /\ pc = "done" /\ call.kind = "audio"
    /\ obs.lookups = 1 /\ obs.spawned = 1
    /\ Kind(obs.failure) = "EntityNotFound"

\* C2 (as stated): a backend result whose state is not success makes
\* async_process_audio_data fail with RecognitionFailed carrying that state, a kind
\* distinct from InternalError; a success state returns {text} with the backend's text.
C2_Claim ==
    /\ (obs.outcome.result # "" /\ obs.outcome.result # SUCCESS) =>
          /\ Kind(obs.failure) = "RecognitionFailed"
          /\ obs.failure.detail = obs.outcome.result
    /\ (obs.outcome.result = SUCCESS /\ call.kind = "recognize_file") =>
          obs.returned = <<[text |-> obs.outcome.text]>>

\* C3: when the candidate matches no supported entry, (a) an absent request with a
\* non-empty supported list resolves to the first supported entry without error,
\* (b) a given request fails with UnsupportedLanguage, (c) an empty supported list
\* fails with UnsupportedLanguage; a given request is never silently replaced.
C3_Candidate == IF rs.language \in {NoneSeq, <<>>} THEN rs.host_language ELSE rs.language
C3_Matches ==
    \/ C3_Candidate = MATCH_ALL /\ rs.supported_languages # <<>>
    \/ SomeSamePrimary(C3_Candidate, rs.supported_languages)
C3_Asymmetry ==
    rs.done =>
        /\ ~C3_Matches =>
              /\ (rs.language = NoneSeq /\ rs.supported_languages # <<>>) =>
                    (~IsExc(rs.result.exc) /\ rs.result.value = rs.supported_languages[1])
              /\ rs.language # NoneSeq => Kind(rs.result.exc) = "UnsupportedLanguage"
              /\ rs.supported_languages = <<>> => Kind(rs.result.exc) = "UnsupportedLanguage"
        /\ (rs.language # NoneSeq /\ ~IsExc(rs.result.exc)) => rs.result.value = C3_Candidate

C3_Witness ==
    /\ rs.done /\ rs.fn = "helpers.async_process_audio_data"
    /\ rs.language = DE /\ rs.host_language = EN /\ rs.supported_languages = <<EN_US>>
    /\ Kind(rs.result.exc) = "UnsupportedLanguage"

\* C4 (as stated): a candidate that matches only through regional-variant
\* equivalence is sent to the backend as the region-qualified supported entry.
C4_Supported == hass.stt[RequestEntity]
C4_Candidate == IF TruthySeq(RequestLanguage) THEN RequestLanguage ELSE hass.language
C4_VariantOnly ==
    /\ obs.lookups = 1 /\ RequestEntity \in DOMAIN hass.stt
    /\ ~InSeq(C4_Candidate, C4_Supported)
    /\ SomeSamePrimary(C4_Candidate, C4_Supported)
C4_Original ==
    C4_VariantOnly =>
        /\ Len(obs.backend_calls) = 1
        /\ InSeq(obs.backend_calls[1].metadata.language, C4_Supported)

\* C4 (amended): a candidate that matches only through regional-variant equivalence
\* is not an error and is sent to the backend unchanged: the metadata language is
\* the candidate itself ("en"), not the region-qualified supported entry ("en-US").
C4_Amended ==
    C4_VariantOnly =>
        /\ Len(obs.backend_calls) = 1
        /\ obs.backend_calls[1].metadata.language = C4_Candidate
        /\ Kind(obs.failure) # "UnsupportedLanguage"

C4_Witness ==
    /\ C4_VariantOnly /\ call.kind = "audio"
    /\ hass.language = EN /\ C4_Supported = <<EN_US, FR>>
    /\ obs.backend_calls[1].metadata.language = EN

\* C5: a transcoder call whose process exits with code 0 and N bytes of stdout
\* returns exactly the last N-44 bytes when N > 44 and fails with the no-audio-stream
\* kind when N <= 44; no call returns an empty payload.
C5_HeaderStripped ==
    tc.done =>
        LET n == Len(tc.stdout_data)
        IN /\ (tc.returncode = 0 /\ n > 44) =>
                 /\ ~IsExc(tc.result.exc)
                 /\ Len(tc.result.value) = n - 44
                 /\ \A i \in 1..(n - 44) : tc.result.value[i] = tc.stdout_data[44 + i]
           /\ (tc.returncode = 0 /\ n <= 44) => Kind(tc.result.exc) = "NoAudioStream"
           /\ ~IsExc(tc.result.exc) => tc.result.value # <<>>

C5_Witness ==
    /\ tc.done /\ tc.fn = "helpers.async_transcode_from_path" /\ tc.returncode = 0
    /\ Len(tc.stdout_data) = 44 /\ tc.result.exc.cls = "NoAudioStreamError"

\* C6: for a buffer of length L and a chunk size C the generator ends after exactly
\* ceil(L/C) chunks, in order, whose concatenation is the buffer; every chunk but
\* the last has length C, the last has length L mod C (C when C divides L); it
\* gives control to the event loop once per chunk.
RECURSIVE Flatten(_)
Flatten(chunks) == IF chunks = <<>> THEN <<>> ELSE Head(chunks) \o Flatten(Tail(chunks))
C6_Chunks ==
    LET len == Len(st.data)
        size == st.chunk_size
        k == Len(st.chunks)
    IN st.pc # "idle" =>
        /\ Flatten(st.chunks) = SubSeq(st.data, 1, st.pos)
        /\ \A i \in 1..(k - 1) : Len(st.chunks[i]) = size
        /\ k >= 1 => Len(st.chunks[k]) \in 1..size
        /\ st.pc = "yielded" => st.sleeps = k - 1
        /\ st.pc = "sleeping" => st.sleeps = k
        /\ st.pc = "closed" =>
              /\ k = (len + size - 1) \div size
              /\ Flatten(st.chunks) = st.data
              /\ k >= 1 => Len(st.chunks[k]) = (IF len % size = 0 THEN size ELSE len % size)
              /\ st.sleeps = k
C6_Stream == [](C6_Chunks) /\ <>(st.pc = "closed")

C6_Witness ==
    /\ st.pc = "closed" /\ Len(st.data) = 5 /\ st.chunk_size = 2
    /\ Len(st.chunks) = 3 /\ Len(st.chunks[3]) = 1 /\ st.sleeps = 3

\* The chat ids and allow-list strings of the bounded sets, written out: the chat
\* ids "7" and "-12", the lists "", blank, "7", padded "7,5" and "75".
ExpectedChatStr ==
    CASE call.chat_id = 7 -> <<55>>
      [] call.chat_id = -12 -> <<45, 49, 50>>
ExpectedAllowed ==
    LET str == Get(options, CONF_TELEGRAM_CHAT_IDS, <<>>)
    IN CASE str = <<>> -> {}
         [] str = BlankChatIds -> {}
         [] str = <<55>> -> {<<55>>}
         [] str = PaddedChatIds -> {<<55>>, <<53>>}
         [] str = <<55, 53>> -> {<<55, 53>>}
SendReplyConfigured == Get(options, CONF_TELEGRAM_SEND_REPLY, TRUE)
NoRecognitionAttempt ==
    /\ obs.get_files = 0 /\ obs.downloads = 0
    /\ obs.transcoder_calls = 0 /\ obs.spawned = 0
    /\ obs.lookups = 0 /\ obs.backend_calls = <<>>

\* C7: a chat message whose chat id is not in a non-empty allow-list gets no reply,
\* no event, no download, no transcoding and no backend call, whatever the
\* send-reply toggle; an allow-list that is empty (or only commas and whitespace)
\* authorizes every chat id.
C7_Unauthorized == IsChat /\ ExpectedAllowed # {} /\ ExpectedChatStr \notin ExpectedAllowed
C7_AllowList ==
    IsChat =>
        /\ C7_Unauthorized =>
              /\ obs.replies = <<>> /\ obs.delivered = 0 /\ obs.events = <<>>
              /\ NoRecognitionAttempt
              /\ ~obs.authorized /\ pc \in {"start", "done"} /\ ~IsExc(obs.raised)
        /\ (ExpectedAllowed = {} /\ pc # "start") => obs.authorized

C7_Witness ==
    /\ C7_Unauthorized /\ pc = "done" /\ call.kind = "audio"
    /\ call.chat_id = 7 /\ Get(options, CONF_TELEGRAM_CHAT_IDS, <<>>) = <<55, 53>>
    /\ SendReplyConfigured /\ RequestEntity = "stt.a"

\* C8 (as stated): an authorized chat message whose duration exceeds a configured
\* limit > 0 causes no recognition attempt and no event, and exactly one reply when
\* send-reply is enabled, none when it is disabled.
C8_TooLong ==
    /\ IsChat /\ obs.authorized /\ TruthyStr(RequestEntity)
    /\ CONF_TELEGRAM_MAX_DURATION \in DOMAIN options
    /\ options[CONF_TELEGRAM_MAX_DURATION] > 0
    /\ call.media.has_duration
    /\ call.media.duration > options[CONF_TELEGRAM_MAX_DURATION]
C8_Claim ==
    C8_TooLong =>
        /\ NoRecognitionAttempt
        /\ obs.events = <<>>
        /\ pc = "done" => Len(obs.replies) = (IF SendReplyConfigured THEN 1 ELSE 0)

\* C8, telegram.py's handle_audio_message alone: no recognition attempt, no event,
\* and the first reply is the "too long" one; a second (generic error) reply is
\* attempted only when sending the first one raised.
C8_AudioHandler ==
    (C8_TooLong /\ call.kind = "audio") =>
        /\ NoRecognitionAttempt
        /\ obs.events = <<>>
        /\ pc # "start" =>
              IF SendReplyConfigured
              THEN /\ Len(obs.replies) \in {1, 2}
                   /\ obs.replies[1].kind = "too_long"
                   /\ Len(obs.replies) = 2 =>
                         (obs.replies[2].kind = "error" /\ obs.failure.msg = "reply failed")
              ELSE obs.replies = <<>>

\* C9 (as stated): every chat message whose recognition ends in the backend's
\* success state fires exactly one event {text, chat_id, username}, whatever the
\* toggle and whatever the text (also an empty one); no other message fires one.
C9_Payload == [event_type |-> "audio_recognizer_transcription", text |-> obs.outcome.text,
               chat_id |-> ExpectedChatStr, username |-> call.username]
C9_Original ==
    IsChat => obs.events = (IF obs.outcome.result = SUCCESS THEN <<C9_Payload>> ELSE <<>>)

\* C9 (amended): every chat message whose recognition ends in the backend's success
\* state with a non-empty text fires exactly one event {text, chat_id, username},
\* whatever the send-reply toggle; a success with an empty or missing text fires
\* none, and neither does a recognition that did not succeed.
C9_Amended ==
    IsChat => obs.events = (IF obs.outcome.result = SUCCESS /\ obs.outcome.text \notin {"", NoneStr}
                            THEN <<C9_Payload>> ELSE <<>>)

C9_Witness ==
    /\ IsChat /\ pc = "done" /\ ~SendReplyConfigured
    /\ obs.outcome.result = SUCCESS /\ obs.outcome.text = "hello"
    /\ Len(obs.events) = 1 /\ obs.replies = <<>>

\* C10 (as stated): with send-reply enabled, a processing failure of kind
\* NoAudioStream gets the specific "no audio track" reply and no generic one, every
\* other processing failure gets the generic error reply with the error text; no
\* event is fired and the failure does not leave the handler.
C10_ProcessingFailed ==
    /\ IsChat /\ loc.should_send_reply
    /\ IsExc(obs.failure) /\ obs.failure.msg # "reply failed"
C10_ExpectedReply ==
    IF Kind(obs.failure) = "NoAudioStream"
    THEN [kind |-> "no_audio_track", text |-> ""]
    ELSE [kind |-> "error", text |-> obs.failure.msg]
C10_Claim ==
    C10_ProcessingFailed =>
        /\ obs.replies = <<C10_ExpectedReply>>
        /\ obs.events = <<>>
        /\ obs.raised.msg \in {"", "reply failed"}

\* C10, telegram.py's handle_audio_message alone
C10_AudioHandler ==
    (C10_ProcessingFailed /\ call.kind = "audio") =>
        /\ obs.replies = <<C10_ExpectedReply>>
        /\ obs.events = <<>>
        /\ obs.raised.msg \in {"", "reply failed"}

\* C11 (as stated): an unexpected exception raised while obtaining the PCM payload
\* (spawning the transcoder included), building the metadata, streaming, calling
\* the backend or classifying its result reaches the caller only as InternalError;
\* the caller of recognize_file never sees a raw implementation exception.
C11_Claim ==
    call.kind = "recognize_file" =>
        /\ Kind(obs.raised) # "raw"
        /\ (pc = "done" /\ Kind(obs.failure) = "raw") => Kind(obs.raised) = "InternalError"

\* C11, the backend call alone: an exception of the backend is replaced by the
\* InternalError message in every handler
C11_BackendWrapped ==
    (pc \in {"reply", "done"} /\ IsExc(obs.outcome.raised)) =>
        /\ Kind(obs.failure) = "InternalError"
        /\ (call.kind = "recognize_file" => Kind(obs.raised) = "InternalError")

\* A chat message that was turned away at the duration test: it passed the
\* allow-list and the entity test, carries media, and ended without get_file.
C12_Rejected ==
    /\ IsChat /\ pc # "start" /\ obs.authorized /\ TruthyStr(RequestEntity)
    /\ call.media.type # "none" /\ obs.get_files = 0
C12_Absent == CONF_TELEGRAM_MAX_DURATION \notin DOMAIN options
C12_Limit == IF C12_Absent THEN 180 ELSE options[CONF_TELEGRAM_MAX_DURATION]
C12_Duration == IF call.media.has_duration THEN call.media.duration ELSE 0

\* C12 (as stated): with the maximum-duration setting 0 or absent, no authorized
\* chat message is rejected because of its duration.
C12_Original ==
    (IsChat /\ (C12_Absent \/ C12_Limit = 0)) => ~C12_Rejected

\* C12 (amended): with the maximum-duration setting 0 no authorized chat message is
\* rejected because of its duration; an absent setting is not unlimited but means
\* the default limit of 180 seconds, so that a message is rejected only when its
\* duration exceeds the effective limit (the configured value, or 180 when absent),
\* and handle_audio_message does reject a 200-second message when nothing is configured.
C12_Amended ==
    IsChat =>
        /\ (~C12_Absent /\ C12_Limit = 0) => ~C12_Rejected
        /\ (C12_Absent /\ C12_Duration <= 180) => ~C12_Rejected
        /\ C12_Rejected => (C12_Limit > 0 /\ C12_Duration > C12_Limit /\ call.kind = "audio")
        /\ (call.kind = "audio" /\ pc # "start" /\ obs.authorized /\ TruthyStr(RequestEntity)
              /\ C12_Absent /\ C12_Duration > 180) => C12_Rejected

C12_Witness ==
    /\ call.kind = "audio" /\ pc = "done" /\ C12_Absent /\ C12_Duration = 200
    /\ C12_Rejected /\ Len(obs.replies) = 1 /\ obs.replies[1].kind = "too_long"
    /\ obs.delivered = 1

\* C13: with the send-reply toggle disabled the chat handler sends no reply for any
\* message and any outcome (success, duration exceeded, no audio stream, any other
\* failure); a reply is sent only while the toggle is enabled, and the toggle is
\* enabled when it is not configured.
C13_ToggleGatesReplies ==
    IsChat =>
        /\ ~SendReplyConfigured => (obs.replies = <<>> /\ obs.delivered = 0 /\ pc # "reply")
        /\ (CONF_TELEGRAM_SEND_REPLY \notin DOMAIN options /\ pc \in {"reply", "done"}
              /\ (obs.outcome.result = SUCCESS \/ IsExc(obs.failure))) => obs.replies # <<>>

C13_Witness ==
    /\ call.kind = "audio" /\ pc = "done"
    /\ CONF_TELEGRAM_SEND_REPLY \in DOMAIN options /\ ~options[CONF_TELEGRAM_SEND_REPLY]
    /\ Kind(obs.failure) = "TranscodeFailed" /\ obs.spawned = 1
    /\ obs.replies = <<>>

\* C16: a recognize_file call whose file_path or entity_id is missing or empty
\* fails with MissingArgument before any transcoder process is spawned and before
\* any lookup or backend call; a call with both present whose recognition succeeds
\* returns {text} with the backend's text.
C16_Missing ==
    /\ call.kind = "recognize_file"
    /\ (call.data.file_path \in {NoneStr, ""} \/ call.data.entity_id \in {NoneStr, ""})
C16_MissingArgument ==
    call.kind = "recognize_file" =>
        /\ (C16_Missing /\ pc # "start") =>
              /\ pc = "done" /\ Kind(obs.raised) = "MissingArgument"
              /\ obs.raised.msg = (IF call.data.file_path \in {NoneStr, ""}
                                   THEN "'file_path' is required."
                                   ELSE "'entity_id' is required.")
              /\ obs.returned = <<>>
        /\ C16_Missing => NoRecognitionAttempt
        /\ ~C16_Missing => Kind(obs.raised) # "MissingArgument"
        /\ (pc = "done" /\ ~IsExc(obs.raised)) =>
              /\ obs.outcome.result = SUCCESS
              /\ obs.returned = <<[text |-> obs.outcome.text]>>
        /\ (pc = "done" /\ obs.outcome.result = SUCCESS) =>
              obs.returned = <<[text |-> obs.outcome.text]>>

C16_Witness ==
    /\ call.kind = "recognize_file" /\ pc = "done"
    /\ call.data.file_path = "/media/a.ogg" /\ call.data.entity_id = ""
    /\ obs.raised.msg = "'entity_id' is required." /\ obs.spawned = 0

\* C17: every request is one-shot: the transcoder process is spawned at most once
\* and the backend's recognition is called at most once, whatever failure occurs;
\* after a failure the request only replies (chat) or raises (file service).
C17_OneShot ==
    /\ obs.transcoder_calls <= 1 /\ obs.spawned <= 1 /\ Len(obs.transcoded) <= 1
    /\ obs.lookups <= 1 /\ Len(obs.backend_calls) <= 1
    /\ obs.get_files <= 1 /\ obs.downloads <= 1
    /\ IsExc(obs.failure) => pc \in {"reply", "done"}
    /\ (IsExc(obs.outcome.raised) \/ obs.outcome.result # "") => Len(obs.backend_calls) = 1

C17_Witness ==
    /\ call.kind = "recognize_file" /\ pc = "done"
    /\ obs.outcome.result = ERROR /\ IsExc(obs.raised)
    /\ obs.spawned = 1 /\ Len(obs.backend_calls) = 1

\* C20: an authorized chat message received while no STT entity is configured ends
\* silently: no reply (also with send-reply enabled), no event, no download, no
\* transcoding; the allow-list test precedes this test, which precedes the
\* duration test (an over-long message gets no "too long" reply either).
C20_NoEntity == IsChat /\ RequestEntity \in {NoneStr, ""}
C20_SilentWithoutEntity ==
    (C20_NoEntity /\ pc # "start") =>
        /\ pc = "done"
        /\ obs.replies = <<>> /\ obs.delivered = 0 /\ obs.events = <<>>
        /\ NoRecognitionAttempt
        /\ ~IsExc(obs.raised) /\ ~IsExc(obs.failure)
        /\ obs.authorized = ~C7_Unauthorized

C20_Witness ==
    /\ C20_NoEntity /\ call.kind = "audio" /\ pc = "done" /\ obs.authorized
    /\ CONF_TELEGRAM_STT_ENTITY_ID \notin DOMAIN options
    /\ SendReplyConfigured /\ C12_Duration = 200 /\ C12_Limit = 180
    /\ obs.replies = <<>>

\* C18: the transcoder looks at the exit code first: a non-zero exit gives
\* TranscodeError carrying the stderr text whatever the stdout length (44 bytes or
\* fewer included); the no-audio-stream failure is raised only after exit code 0;
\* the two failures differ, so that a caller can tell them apart.
C18_TranscodeFailure ==
    [cls |-> "ServiceValidationError",
     msg |-> IF tc.fn \in {"helpers.async_transcode_from_bytes", "__init__.async_transcode_from_bytes"}
             THEN "Failed to transcode in-memory audio. Error: {}"
             ELSE "Failed to transcode audio file: {}. Error: {}",
     detail |-> tc.error_msg]
C18_ExitCodeFirst ==
    tc.done =>
        /\ tc.returncode # 0 =>
              /\ tc.result.exc = C18_TranscodeFailure
              /\ Kind(tc.result.exc) = "TranscodeFailed"
              /\ tc.result.value = <<>>
        /\ Kind(tc.result.exc) = "NoAudioStream" =>
              (tc.returncode = 0 /\ Len(tc.stdout_data) <= 44)
        /\ tc.result.exc.cls = "NoAudioStreamError" => tc.returncode = 0
        /\ IsExc(tc.result.exc) => Kind(tc.result.exc) \in {"TranscodeFailed", "NoAudioStream"}
        /\ tc.result.exc.msg \in {"The source media does not contain an audio stream.",
                                  "The source file does not contain an audio stream.",
                                  "Transcoding resulted in empty audio data."} =>
              tc.returncode = 0

C18_Witness ==
    /\ tc.done /\ tc.fn = "helpers.async_transcode_from_bytes"
    /\ tc.returncode = 1 /\ Len(tc.stdout_data) = 0
    /\ Kind(tc.result.exc) = "TranscodeFailed" /\ tc.result.exc.detail = "Invalid data found"

\* C19 (as stated): a request whose language is the empty string is resolved like
\* a request without language: the candidate is the host default and, when the
\* host default matches nothing of a non-empty supported list, the first supported
\* entry is taken silently instead of failing.
C19_HostMatches == SomeSamePrimary(rs.host_language, rs.supported_languages)
C19_Claim ==
    (rs.done /\ rs.language = <<>>) =>
        /\ C19_HostMatches => (~IsExc(rs.result.exc) /\ rs.result.value = rs.host_language)
        /\ (~C19_HostMatches /\ rs.supported_languages # <<>>) =>
              (~IsExc(rs.result.exc) /\ rs.result.value = rs.supported_languages[1])

\* C19, what the code does with an empty string: the candidate is the host default,
\* but a host default that matches nothing fails with UnsupportedLanguage naming
\* the host default
C19_EmptyIsExplicit ==
    (rs.done /\ rs.language = <<>>) =>
        /\ C19_HostMatches => (~IsExc(rs.result.exc) /\ rs.result.value = rs.host_language)
        /\ ~C19_HostMatches =>
              (Kind(rs.result.exc) = "UnsupportedLanguage"
               /\ rs.result.exc.detail = rs.host_language)

\* The shutdown steps a stop_bot call owes to the Application it found: stop the
\* updater if it was running, stop the application if it was running, shut down.
C14_Steps ==
    (IF bot.last.was_polling THEN <<"updater.stop">> ELSE <<>>)
    \o (IF bot.last.was_running THEN <<"stop">> ELSE <<>>)
    \o <<"shutdown">>

\* C14 (as stated): stop_bot attempts all three shutdown steps (updater if
\* running, application if running, resources) even when an earlier step raises,
\* logs the failure and never raises to its caller.
C14_Claim ==
    (bot.last.op = "stop_bot" /\ bot.last.had_app) =>
        /\ bot.last.steps = C14_Steps
        /\ ~IsExc(bot.last.raised)

\* C14, what stop_bot does keep, whatever runs while it is suspended: it never
\* raises, it logs when a step (or an attribute access on a reference that became
\* None) raised, it drops its reference, and the steps it attempted are, in order,
\* updater.stop, stop, shutdown, without any step after the first one that raised
C14_StopsAtFirstFailure ==
    bot.last.op = "stop_bot" =>
        /\ ~IsExc(bot.last.raised)
        /\ bot.telegram_app = 0
        /\ ~bot.last.had_app => (bot.last.steps = <<>> /\ ~bot.last.logged)
        /\ bot.last.had_app =>
              /\ \E s \in {<<"updater.stop", "stop", "shutdown">>, <<"updater.stop", "shutdown">>,
                         <<"stop", "shutdown">>, <<"shutdown">>} :
                    \E n \in 1..Len(s) : bot.last.steps = SubSeq(s, 1, n)
              /\ ~bot.last.logged =>
                    /\ bot.last.steps[Len(bot.last.steps)] = "shutdown"
                    /\ bot.apps[bot.last.app].shut_down
              /\ bot.last.steps[Len(bot.last.steps)] # "shutdown" => bot.last.logged

\* The Applications that are running (application started or updater polling)
C15_Running ==
    {i \in 1..Len(bot.apps) : bot.apps[i].running \/ bot.apps[i].updater_running}

\* C15 (as stated): start and stop are idempotent over any sequence of lifecycle
\* calls: stop_bot on a stopped manager does nothing, start_bot_if_enabled on a
\* started manager builds no second session, at most one session is running, and
\* every running session is the one the manager in hass.data refers to.
C15_Claim ==
    /\ (bot.last.op = "stop_bot" /\ ~bot.last.had_app) =>
          (bot.last.steps = <<>> /\ ~bot.last.logged /\ ~IsExc(bot.last.raised))
    /\ (bot.last.op = "start_bot_if_enabled" /\ bot.last.had_app) => bot.last.steps = <<>>
    /\ Cardinality(C15_Running) <= 1
    /\ \A i \in C15_Running : bot.has_manager /\ bot.telegram_app = i

\* C15, the stop half alone: stop_bot on a manager without Application attempts
\* nothing, logs nothing, raises nothing and leaves no reference
C15_StopOnStopped ==
    (bot.last.op = "stop_bot" /\ ~bot.last.had_app) =>
        /\ bot.last.steps = <<>> /\ ~bot.last.logged /\ ~IsExc(bot.last.raised)
        /\ bot.telegram_app = 0

\* A request run alone: its handler from the start through the answers its awaits
\* got, its transcoder process giving the bytes of the request's own media
RECURSIVE C21_Alone(_, _, _)
C21_Alone(task, s, k) ==
    IF k > Len(task.answers) THEN s
    ELSE C21_Alone(task, resume(options, hass, task.call, task.seed, s, task.answers[k]), k + 1)

\* What a request does when nothing else runs, read off the answers its awaits
\* got.  A chat message awaits get_file, download, the start of ffmpeg, its end,
\* the backend and reply_text (answers 2 to 7, or fewer after a failure); the file
\* service awaits the start of ffmpeg, its end and the backend (answers 2 to 4).
C21_Chat(t) == t.call.kind \in {"audio", "voice"}
C21_Got(t, k) == Len(t.answers) >= k
C21_Ended(t) == IF C21_Chat(t) THEN 5 ELSE 3
C21_Transcoded(t) ==
    /\ C21_Got(t, C21_Ended(t))
    /\ \A k \in 2..(C21_Ended(t) - 1) : t.answers[k].ok
    /\ t.answers[C21_Ended(t)].returncode = 0
    /\ t.answers[C21_Ended(t)].n > 44
C21_Recognized(t) ==
    /\ C21_Transcoded(t)
    /\ C21_Got(t, C21_Ended(t) + 1)
    /\ t.answers[C21_Ended(t) + 1].outcome.result = "success"
\* the PCM of the request's own media: ffmpeg's output without its 44-byte header
C21_Pcm(t) == [k \in 1..(t.answers[C21_Ended(t)].n - 44) |-> ((44 + k) * t.seed) % 256]
\* (no request names a language: the metadata carry the host's "en", which the
\* entity's "en-US" matches)
C21_BackendCall(t) ==
    [entity_id |-> "stt.a",
     metadata |-> [language |-> <<"e", "n">>, format |-> "wav",
                   codec |-> "pcm", bit_rate |-> 16, sample_rate |-> 16000, channel |-> 1],
     audio_stream |-> <<C21_Pcm(t)>>]
C21_ChatIdStr(t) == IF t.call.chat_id = 7 THEN <<55>> ELSE <<45, 49, 50>>
C21_Event(t) ==
    [event_type |-> "audio_recognizer_transcription", text |-> "hello",
     chat_id |-> C21_ChatIdStr(t), username |-> t.call.username]
\* The reply a chat message gets and the number of the answer that says whether
\* it was delivered: the transcript, or the reply to the first failure
C21_Reply(t) ==
    LET error(text, k) == [kind |-> "error", text |-> text, answer |-> k]
    IN IF C21_Got(t, 3) /\ ~t.answers[3].ok THEN {error("download failed", 4)}
       ELSE IF C21_Got(t, 4) /\ ~t.answers[4].ok
       THEN {error("No such file or directory: 'ffmpeg'", 5)}
       ELSE IF C21_Got(t, 5) /\ t.answers[5].returncode # 0
       THEN {error("Failed to transcode in-memory audio. Error: {}", 6)}
       ELSE IF C21_Got(t, 5) /\ t.answers[5].n <= 44
       THEN IF t.call.kind = "audio"
            THEN {[kind |-> "no_audio_track", text |-> "", answer |-> 6]}
            ELSE {error("Transcoding resulted in empty audio data.", 6)}
       ELSE IF C21_Got(t, 6) /\ t.answers[6].outcome.result # "success"
       THEN {error("An unexpected error occurred during STT processing.", 7)}
       ELSE IF C21_Got(t, 7) /\ ~t.answers[7].ok THEN {error("reply failed", 8)}
       ELSE IF C21_Got(t, 6) THEN {[kind |-> "transcript", text |-> "hello", answer |-> 7]}
       ELSE {}
C21_Delivered(i) ==
    LET t == reqs[i]
    IN IF ~C21_Chat(t) THEN {}
       ELSE {[message |-> i, chat_id |-> t.call.chat_id, kind |-> r.kind, text |-> r.text] :
                r \in {x \in C21_Reply(t) : C21_Got(t, x.answer) /\ t.answers[x.answer].ok}}
\* what the send_reply service put into a chat: not a reply to any request
C21_ServiceMessages ==
    {[message |-> 0, chat_id |-> 7, kind |-> "message", text |-> "hi"] : x \in
        {s \in {world.service} : s.pc = "done" /\ ~IsExc(s.raised) /\ s.logged = ""}}
RECURSIVE C21_Sum(_)
C21_Sum(bags) == IF bags = <<>> THEN EmptyBag ELSE Head(bags) (+) C21_Sum(Tail(bags))

\* C21: requests do not interfere: in every interleaving of the requests at their
\* awaits, what the shared world received (the calls of the STT entity with their
\* PCM payloads, the events on the bus, the replies delivered to the chats) is,
\* request by request, what each request does alone with the same answers to its
\* awaits, next to the message the send_reply service delivers whenever it is
\* called; the file service returns the text of its own recognition; every task
\* is where the same request run alone would be; and every running transcoder
\* process is held by exactly one task and was started on that task's media.
C21_NonInterference ==
    /\ world.stt = C21_Sum([i \in DOMAIN reqs |->
                      IF C21_Transcoded(reqs[i]) THEN SetToBag({C21_BackendCall(reqs[i])})
                      ELSE EmptyBag])
    /\ world.bus = C21_Sum([i \in DOMAIN reqs |->
                      IF C21_Chat(reqs[i]) /\ C21_Recognized(reqs[i])
                      THEN SetToBag({C21_Event(reqs[i])}) ELSE EmptyBag])
    /\ world.sent = C21_Sum([i \in DOMAIN reqs |-> SetToBag(C21_Delivered(i))])
                      (+) SetToBag(C21_ServiceMessages)
    /\ \A i \in DOMAIN reqs :
          /\ reqs[i].st = C21_Alone(reqs[i], At("start", NoLocals, NoObs), 1)
          /\ reqs[i].call.kind = "recognize_file" =>
                /\ reqs[i].st.obs.returned
                      = (IF C21_Recognized(reqs[i]) THEN <<[text |-> "hello"]>> ELSE <<>>)
                /\ IsExc(reqs[i].st.obs.raised)
                      = (reqs[i].st.pc = "done" /\ ~C21_Recognized(reqs[i]))
          /\ reqs[i].st.pc = "communicate" =>
                [pid |-> reqs[i].process, source |-> reqs[i].seed] \in world.processes
    /\ Cardinality(world.processes)
          = Cardinality({i \in DOMAIN reqs : reqs[i].st.pc = "communicate"})

\* Two chat messages in flight at once (the second one's ffmpeg got pid 2, so it
\* was started while the first one's ran); the first has since been recognized,
\* its event fired and its transcript delivered, and the send_reply service has
\* put a message of its own into the first one's chat
C21_Witness ==
    /\ reqs # <<>>
    /\ reqs[1].call.kind = "audio" /\ reqs[2].call.kind = "voice"
    /\ reqs[1].call.chat_id = 7 /\ reqs[2].call.chat_id = -12
    /\ reqs[1].st.pc = "done"
    /\ reqs[2].st.pc = "communicate" /\ reqs[2].process = 2
    /\ BagCardinality(world.stt) = 1
    /\ BagCardinality(world.bus) = 1 /\ BagIn(C21_Event(reqs[1]), world.bus)
    /\ BagCardinality(world.sent) = 2
    /\ BagIn([message |-> 1, chat_id |-> 7, kind |-> "transcript", text |-> "hello"],
             world.sent)
    /\ BagIn([message |-> 0, chat_id |-> 7, kind |-> "message", text |-> "hi"], world.sent)

\* A request that got as far as a recognition attempt: the file service past its
\* argument tests, a chat message past the allow-list, entity and duration tests
C22_Attempt == obs.transcoder_calls > 0 \/ obs.get_files > 0
C22_Success ==
    /\ obs.outcome.result = SUCCESS
    /\ call.kind = "recognize_file" => obs.returned = <<[text |-> obs.outcome.text]>>
C22_Failure == IsExc(obs.failure) /\ obs.failure.msg # "reply failed"
\* Where a chat message ended, in Received, AuthorizationChecked, DurationChecked,
\* Recognized, Replied
C22_Terminal ==
    IF ~obs.authorized THEN "Received"
    ELSE IF ~C22_Attempt THEN (IF C12_Rejected THEN "DurationChecked" ELSE "AuthorizationChecked")
    ELSE IF obs.replies = <<>> THEN "Recognized" ELSE "Replied"
C22_OneOutcome ==
    pc = "done" =>
        /\ C22_Attempt => (C22_Success # C22_Failure)
        /\ ~C22_Attempt => (obs.outcome = NoOutcome /\ obs.returned = <<>> /\ obs.events = <<>>)
        /\ call.kind = "recognize_file" => ((obs.returned # <<>>) # IsExc(obs.raised))
        /\ (C22_Failure /\ IsChat) => Kind(obs.failure) \in
              {"raw", "TranscodeFailed", "NoAudioStream", "EntityNotFound",
               "UnsupportedLanguage", "InternalError"}
        /\ IsChat =>
              /\ C22_Terminal = "Received" => C7_Unauthorized
              /\ C22_Terminal = "AuthorizationChecked" =>
                    (RequestEntity \in {NoneStr, ""} \/ call.media.type = "none")
              /\ C22_Terminal = "Recognized" => ~loc.should_send_reply

\* C22: provided every await comes back, every request ends, and a request that
\* attempted a recognition ends with exactly one outcome, a success with its text
\* or one failure, never both and never none; every chat message ends in one of
\* the states Received, AuthorizationChecked, DurationChecked, Recognized, Replied.
C22_EventuallyOneOutcome == <>(pc = "done") /\ [](C22_OneOutcome)

C22_Witness ==
    /\ pc = "done" /\ call.kind = "audio" /\ C22_Attempt
    /\ IsExc(obs.outcome.raised) /\ C22_Failure /\ ~C22_Success
    /\ C22_Terminal = "Replied" /\ obs.delivered = 1

\* The backend's supported-language list as the lookup of the request's entity gave it
C23_Supported == hass.stt[RequestEntity]
C23_ResolutionFailed ==
    \/ Kind(obs.failure) \in {"EntityNotFound", "UnsupportedLanguage"}
    \/ Kind(obs.raised) \in {"EntityNotFound", "UnsupportedLanguage"}

\* C23: at every backend call the metadata language matches the backend's
\* supported-language list or is the list's first entry; the backend is not called
\* when the entity lookup returned nothing or when the language resolution failed.
C23_BackendLanguageSupported ==
    /\ \A k \in 1..Len(obs.backend_calls) :
          LET language == obs.backend_calls[k].metadata.language
          IN /\ RequestEntity \in DOMAIN hass.stt
             /\ obs.backend_calls[k].entity_id = RequestEntity
             /\ \/ language_util_matches(language, C23_Supported) # <<>>
                \/ (C23_Supported # <<>> /\ language = C23_Supported[1])
    /\ (EntityUnknown \/ C23_ResolutionFailed) => obs.backend_calls = <<>>
    /\ (obs.lookups > 0 /\ RequestEntity \in DOMAIN hass.stt /\ C23_Supported = <<>>)
          => obs.backend_calls = <<>>

\* the fallback in use: the host default matches nothing and the first entry is sent
C23_Witness ==
    /\ pc = "backend" /\ Len(obs.backend_calls) = 1
    /\ hass.language = DE /\ C23_Supported = <<EN_US, FR>>
    /\ language_util_matches(DE, C23_Supported) = <<>>
    /\ obs.backend_calls[1].metadata.language = EN_US

C24_ErrorReplies == {k \in 1..Len(obs.replies) : obs.replies[k].kind \in {"error", "no_audio_track"}}

\* C24: for one chat message a fired transcription event and an error reply are
\* mutually exclusive and at most one reply is attempted: once the event has been
\* fired no generic error reply is sent, also when sending the success reply fails.
C24_Claim ==
    IsChat =>
        /\ Len(obs.replies) <= 1
        /\ obs.events # <<>> => C24_ErrorReplies = {}

\* What holds instead: at most one event and at most two reply attempts; a second
\* attempt is the generic error reply, made only after the first reply, sent inside
\* the try block, raised; while no reply call raises, the event and an error reply
\* exclude each other and one reply at most is attempted.
C24_SecondReplyOnlyAfterFailedReply ==
    IsChat =>
        /\ Len(obs.events) <= 1 /\ Len(obs.replies) <= 2
        /\ Len(obs.replies) = 2 =>
              /\ obs.replies[1].kind \notin {"error", "no_audio_track"}
              /\ obs.replies[2].kind = "error" /\ obs.replies[2].text = "reply failed"
              /\ obs.failure = TelegramError("reply failed")
              /\ loc.reply_in = "except"
        /\ (obs.events # <<>> /\ C24_ErrorReplies # {}) =>
              /\ Len(obs.replies) = 2 /\ obs.replies[1].kind = "transcript"
              /\ obs.replies[1].text = obs.events[1].text

C24_EventThenErrorReply ==
    /\ pc = "done" /\ call.kind = "audio"
    /\ Len(obs.events) = 1 /\ Len(obs.replies) = 2
    /\ obs.replies[1].kind = "transcript" /\ obs.replies[2].kind = "error"
    /\ obs.delivered = 1

====
